---- MODULE Spec2Model ----
(***************************************************************************)
(* Branch listing (gitbutler-branch-actions/src/branch.rs) and the         *)
(* virtual-branch state store (gitbutler-stack/src/state.rs) of GitButler. *)
(*                                                                         *)
(* An Option<T> is a set with at most one element: None is {} and Some(x)  *)
(* is {x}.  A HashMap is a function whose domain is its key set; its       *)
(* iteration order is unspecified and is chosen afresh at every iteration. *)
(***************************************************************************)
EXTENDS Integers, Sequences, FiniteSets, TLC

VARIABLES
    refs,             \* the repository's branches, in the order repo.branches(None) yields them
    default_target,   \* VirtualBranches.default_target : Option<Target>
    branches,         \* VirtualBranches.branches : HashMap<StackId, Stack>
    last,             \* the last call on the handle: operation, argument, result
    before,           \* VirtualBranches.branches as it was when that call started
    after_ordering,   \* whether the call before the last one was an update_ordering that returned
                      \* Ok: "no", or else "renumbered" if it changed an order and "kept" if not
    got,              \* what the last get_branch or get_default_target returned, if one was
                      \* made since the last call of another kind : Option<result>
    callers,          \* the unsynchronized callers of the handle: where each is in its call
    document,         \* a TextDocument (deltas.rs): its text and its deltas
    created           \* the constructor that made the TextDocument, and its arguments

vars ==
    <<refs, default_target, branches, last, before, after_ordering, got, callers, document,
      created>>

None == {}
Some(x) == {x}
Unwrap(o) == CHOOSE x \in o : TRUE

(***************************************************************************)
(* Bounds of the model.                                                    *)
(***************************************************************************)
\* greatest order value a caller passes to set_branch
MaxOrder == 2

\* greatest number of deltas a TextDocument collects
MaxDeltas == 3

StackIds == {"s1", "s2", "s3"}

(***************************************************************************)
(* The git repository the store and the listing look into (git2).          *)
(* c0 is a root commit, c1 its child and c3 the child of c1; c2 is the     *)
(* root of an unrelated history, and so is c4, which was committed before  *)
(* 1970; cX is an object id the repository does not hold.                  *)
(***************************************************************************)
Oids == {"c0", "c1", "c2", "c3", "c4", "cX"}

Commits == {"c0", "c1", "c2", "c3", "c4"}

Parents ==
    [c \in Commits |-> IF c = "c1" THEN {"c0"} ELSE IF c = "c3" THEN {"c1"} ELSE {}]

\* head_commit.time().seconds(): an i64, negative for a time before the epoch
CommitSeconds ==
    [c \in Commits |-> IF c = "c0" THEN 1 ELSE IF c = "c1" THEN 2
                       ELSE IF c = "c4" THEN -1 ELSE 3]

\* head_commit.author(), as an Author { name, email }
CommitAuthor ==
    [c \in Commits |-> IF c = "c2" THEN [name |-> None, email |-> Some("bot@example.com")]
                       ELSE [name |-> Some("dev"), email |-> Some("dev@example.com")]]

\* commit.tree(): Some(the number of lines of the one file of the tree), or None
\* for Err: the object database does not hold the tree of c3
TreeLines ==
    [c \in Commits |-> IF c = "c3" THEN None
                       ELSE IF c = "c0" THEN Some(10)
                       ELSE IF c = "c1" THEN Some(12) ELSE Some(5)]

\* repo.remotes(): the names of the configured remotes
KnownRemotes == {"origin", "upstream"}

\* repo.find_commit(oid).is_ok()
find_commit_ok(oid) == oid \in Commits

RECURSIVE Ancestors(_)
Ancestors(c) == {c} \cup UNION {Ancestors(p) : p \in Parents[c]}

\* repo.merge_base(one, two): Some(base), or None for Err (an object is missing,
\* or the two commits share no history)
merge_base(one, two) ==
    IF ~(one \in Commits /\ two \in Commits) THEN None
    ELSE LET common == Ancestors(one) \cap Ancestors(two)
             best == {c \in common : \A d \in common : d = c \/ c \notin Ancestors(d)}
         IN  IF best = {} THEN None ELSE Some(CHOOSE c \in best : TRUE)

(***************************************************************************)
(* Stack (a virtual branch) and Target, as state.rs and branch.rs use them.*)
(***************************************************************************)
Stack(id, name, head, upstream, source_refname, order, in_workspace, ts, wip) ==
    [id |-> id, name |-> name, head |-> head, upstream |-> upstream,
     source_refname |-> source_refname, order |-> order,
     in_workspace |-> in_workspace, updated_timestamp_ms |-> ts,
     not_in_workspace_wip_change_id |-> wip]

\* Target { branch: RemoteRefname { remote, branch }, sha, .. }
Target(remote, branch, sha) ==
    [branch |-> [remote |-> remote, branch |-> branch], sha |-> sha]

EmptyMap == [k \in {} |-> {}]

\* an insert that leaves an entry already stored under the key as it is
InsertIfVacant(map, key, value) ==
    [k \in DOMAIN map \cup {key} |-> IF k \in DOMAIN map THEN map[k] ELSE value]

\* HashMap::insert(key, value)
Insert(map, key, value) ==
    [k \in DOMAIN map \cup {key} |-> IF k = key THEN value ELSE map[k]]

\* HashMap::remove(key)
Remove(map, key) == [k \in DOMAIN map \ {key} |-> map[k]]

\* every order in which the values of a HashMap over the keys `keys` may be iterated
IterationOrders(keys) ==
    {s \in [1..Cardinality(keys) -> keys] : \A i, j \in DOMAIN s : i # j => s[i] # s[j]}

\* the result a call reports
Ok(op, arg, ret) == [op |-> op, arg |-> arg, ok |-> TRUE, err |-> "", ret |-> ret]
Err(op, arg, err) == [op |-> op, arg |-> arg, ok |-> FALSE, err |-> err, ret |-> None]

\* the bookkeeping every call does: remember the document it started from
Called == /\ UNCHANGED <<refs, callers, document, created>>
          /\ before' = branches
          /\ got' = None
          /\ after_ordering' = IF last.op = "update_ordering" /\ last.ok
                               THEN IF branches # before THEN "renumbered" ELSE "kept"
                               ELSE "no"

\* no caller is in a call
NoCallers == [c \in {} |-> {}]

\* TextDocument::default(): no text, no deltas
EmptyDocument == [doc |-> <<>>, deltas |-> <<>>]

\* a call of a constructor of TextDocument: default(), from_deltas(deltas) or
\* new(value, deltas)
Created(op, value, deltas) == [op |-> op, value |-> value, deltas |-> deltas]

Init ==
    /\ refs = <<>>
    /\ default_target = None
    /\ branches = EmptyMap
    /\ last = Ok("new", None, None)
    /\ before = EmptyMap
    /\ after_ordering = "no"
    /\ got = None
    /\ callers = NoCallers
    /\ document = EmptyDocument
    /\ created = Created("default", <<>>, <<>>)

(***************************************************************************)
(* VirtualBranchesHandle: every call reads the whole file, changes the     *)
(* document in memory and writes the whole file back.  read_file and       *)
(* write_file can fail; a call that fails before its write leaves the file *)
(* as it was.                                                              *)
(***************************************************************************)
\* the calls that write the file at most once
SingleWriteCalls ==
    {"set_default_target", "set_branch", "mark_as_not_in_workspace",
     "delete_branch_entry", "garbage_collect"}

\* read_file()? or write_file()? fails in one of them: Err, and the file is as it was
read_or_write_fails(op) ==
    /\ Called
    /\ UNCHANGED <<default_target, branches>>
    /\ last' = Err(op, None, "io")

set_default_target(target) ==
    /\ Called
    /\ UNCHANGED branches
    /\ default_target' = Some(target)
    /\ last' = Ok("set_default_target", Some(target), None)

\* a store that replaces the entry of a stack of the same name, if there is one
set_branch_by_name(branch) ==
    /\ Called
    /\ UNCHANGED default_target
    /\ LET same == {k \in DOMAIN branches : branches[k].name = branch.name}
           key == IF same = {} THEN branch.id ELSE CHOOSE k \in same : TRUE
       IN  branches' = Insert(branches, key, branch)
    /\ last' = Ok("set_branch", Some(branch), None)

set_branch(branch) ==
    /\ Called
    /\ UNCHANGED default_target
    /\ branches' = Insert(branches, branch.id, branch)
    /\ last' = Ok("set_branch", Some(branch), None)

\* try_branch: branches.get(&id).cloned()
try_branch(doc, id) == IF id \in DOMAIN doc THEN Some(doc[id]) ELSE None

\* the frame of a call that only reads the file
Read == UNCHANGED <<refs, default_target, branches, last, before, after_ordering,
                    callers, document, created>>

\* read_file()? fails in a get: Err
get_fails(op, arg) ==
    /\ Read
    /\ got' = Some(Err(op, arg, "io"))

\* a get that hands on what try_branch found, also when that is nothing
try_branch_passed_on(doc, id) == Ok("get_branch", Some(id), try_branch(doc, id))

\* try_branch(id)?.ok_or_else(|| anyhow!("branch with ID {id} not found"))
get_branch_result(doc, id) ==
    IF try_branch(doc, id) = None THEN Err("get_branch", Some(id), "NotFound")
    ELSE Ok("get_branch", Some(id), try_branch(doc, id))

get_branch(id) ==
    /\ Read
    /\ got' = Some(get_branch_result(branches, id))

get_default_target ==
    /\ Read
    /\ got' = Some(IF default_target = None
                   THEN Err("get_default_target", None, "NotFound")
                   ELSE Ok("get_default_target", None, default_target))

\* a mark that stores a stack of its own making under an id that is not stored
mark_or_create(id) ==
    /\ Called
    /\ UNCHANGED default_target
    /\ LET branch == IF try_branch(branches, id) = None
                     THEN Stack(id, "", "c0", None, None, 0, FALSE, 0, None)
                     ELSE [Unwrap(try_branch(branches, id)) EXCEPT !.in_workspace = FALSE]
       IN  /\ branches' = Insert(branches, branch.id, branch)
           /\ last' = Ok("mark_as_not_in_workspace", Some(id), None)

mark_as_not_in_workspace(id) ==
    /\ Called
    /\ UNCHANGED default_target
    /\ \/ /\ try_branch(branches, id) = None
          /\ UNCHANGED branches
          /\ last' = Err("mark_as_not_in_workspace", Some(id), "NotFound")
       \/ /\ try_branch(branches, id) # None
          /\ LET branch == [Unwrap(try_branch(branches, id)) EXCEPT !.in_workspace = FALSE]
             IN  /\ branches' = Insert(branches, branch.id, branch)
                 /\ last' = Ok("mark_as_not_in_workspace", Some(id), None)

\* list_all_branches: branches.values().cloned().collect(), in the iteration order `iter`
list_all_branches(doc, iter) == [i \in 1..Len(iter) |-> doc[iter[i]]]

InWorkspace(branch) == branch.in_workspace

\* a filter that lets every stack through
InOrOutOfWorkspace(branch) == TRUE

NotInWorkspace(branch) == ~branch.in_workspace

list_branches_in_workspace(doc, iter) == SelectSeq(list_all_branches(doc, iter), InWorkspace)

\* a sort by `order` that puts the greatest first
InsertByKeyDescending(s, branch) ==
    LET k == Cardinality({i \in DOMAIN s : s[i].order >= branch.order})
    IN  SubSeq(s, 1, k) \o <<branch>> \o SubSeq(s, k + 1, Len(s))

\* the place a stable sort by `order` gives `branch` when it follows the sorted `s`
InsertByKey(s, branch) ==
    LET k == Cardinality({i \in DOMAIN s : s[i].order <= branch.order})
    IN  SubSeq(s, 1, k) \o <<branch>> \o SubSeq(s, k + 1, Len(s))

\* itertools sorted_by_key(|branch| branch.order): a stable sort, ascending
RECURSIVE sorted_by_key(_)
sorted_by_key(s) ==
    IF s = <<>> THEN <<>>
    ELSE InsertByKey(sorted_by_key(SubSeq(s, 1, Len(s) - 1)), s[Len(s)])

\* an enumeration that counts from one
OrderAtFromOne(k) == k

\* the order update_ordering stores for the entry at (1-based) place k of the sorted list
OrderAt(k) == k - 1

\* the document after the set_branch calls for the first k entries of `sorted`
RECURSIVE set_orders(_, _, _)
set_orders(doc, sorted, k) ==
    IF k = 0 THEN doc
    ELSE Insert(set_orders(doc, sorted, k - 1), sorted[k].id,
                [sorted[k] EXCEPT !.order = OrderAt(k)])

\* a renumbering that passes over the entry whose set_branch fails and goes on
\* with the entries after it
update_ordering_past_failure(doc) ==
    {[doc |-> doc, ok |-> FALSE, err |-> "io"]}
    \cup UNION {
        LET sorted == sorted_by_key(list_branches_in_workspace(doc, iter))
        IN  {[doc |-> [id \in DOMAIN doc |->
                         IF \E i \in DOMAIN sorted : sorted[i].id = id /\ i # failing
                         THEN [doc[id] EXCEPT !.order =
                                  OrderAt(CHOOSE i \in DOMAIN sorted : sorted[i].id = id)]
                         ELSE doc[id]],
              ok |-> failing = 0,
              err |-> IF failing = 0 THEN "" ELSE "ordering"]
             : failing \in 0..Len(sorted)}
        : iter \in IterationOrders(DOMAIN doc)}

\* what update_ordering can do to the document `doc`: the document it leaves and its result
update_ordering_results(doc) ==
    {[doc |-> doc, ok |-> FALSE, err |-> "io"]}
    \cup UNION {
        LET sorted == sorted_by_key(list_branches_in_workspace(doc, iter))
        IN  {[doc |-> set_orders(doc, sorted, written),
              ok |-> written = Len(sorted),
              err |-> IF written = Len(sorted) THEN "" ELSE "ordering"]
             : written \in 0..Len(sorted)}
        : iter \in IterationOrders(DOMAIN doc)}

update_ordering ==
    /\ Called
    /\ UNCHANGED default_target
    /\ \E r \in update_ordering_results(branches) :
          /\ branches' = r.doc
          /\ last' = IF r.ok THEN Ok("update_ordering", None, None)
                     ELSE Err("update_ordering", None, r.err)

\* the greatest order itself, not the one after it
order_of_last(doc, iter) ==
    LET sorted == sorted_by_key(list_branches_in_workspace(doc, iter))
    IN  IF sorted = <<>> THEN 0 ELSE sorted[Len(sorted)].order

\* the index next_order_index reads off the document `doc`
order_after_last(doc, iter) ==
    LET sorted == sorted_by_key(list_branches_in_workspace(doc, iter))
    IN  IF sorted = <<>> THEN 0 ELSE sorted[Len(sorted)].order + 1

next_order_index ==
    /\ Called
    /\ UNCHANGED default_target
    /\ \E r \in update_ordering_results(branches) :
          /\ branches' = r.doc
          /\ \/ /\ ~r.ok
                /\ last' = Err("next_order_index", None, r.err)
             \/ /\ r.ok
                /\ last' = Err("next_order_index", None, "io")
             \/ /\ r.ok
                /\ \E order \in {order_after_last(r.doc, iter) :
                                    iter \in IterationOrders(DOMAIN r.doc)} :
                      last' = Ok("next_order_index", None, Some(order))

delete_branch_entry(branch_id) ==
    /\ Called
    /\ UNCHANGED default_target
    /\ branches' = Remove(branches, branch_id)
    /\ last' = Ok("delete_branch_entry", Some(branch_id), None)

\* a loop without the check of the marker
SkipsNothing(branch) == FALSE

\* whether garbage_collect passes over `branch` without looking at its head
SkipsWip(branch) == branch.not_in_workspace_wip_change_id # None

\* a loop that collects only the stacks whose head the repository does not hold
RECURSIVE gc_broken_heads_only(_, _)
gc_broken_heads_only(list, target) ==
    IF list = <<>> THEN Some(<<>>)
    ELSE LET branch == Head(list)
             rest == gc_broken_heads_only(Tail(list), target)
         IN  IF SkipsWip(branch) \/ find_commit_ok(branch.head) THEN rest
             ELSE Some(<<branch.id>> \o Unwrap(rest))

\* the loop of garbage_collect over `list`: Some(to_remove), or None when a
\* merge_base fails and `?` leaves the function
RECURSIVE gc_to_remove(_, _)
gc_to_remove(list, target) ==
    IF list = <<>> THEN Some(<<>>)
    ELSE LET branch == Head(list)
             rest == gc_to_remove(Tail(list), target)
             base == merge_base(branch.head, target.sha)
         IN  IF SkipsWip(branch) THEN rest
             ELSE IF ~find_commit_ok(branch.head)
                  THEN IF rest = None THEN None ELSE Some(<<branch.id>> \o Unwrap(rest))
             ELSE IF base = None \/ rest = None THEN None
             ELSE IF Some(branch.head) = base THEN Some(<<branch.id>> \o Unwrap(rest))
             ELSE rest

\* branches.remove(&branch_id) for every branch_id of to_remove
RECURSIVE remove_all(_, _)
remove_all(doc, to_remove) ==
    IF to_remove = <<>> THEN doc
    ELSE remove_all(Remove(doc, Head(to_remove)), Tail(to_remove))

\* a collection that, when it fails, has already removed the stacks of `list`
\* whose head the repository does not hold
gc_removed_on_error(doc, list, target) ==
    remove_all(doc, Unwrap(gc_broken_heads_only(list, target)))

\* the file when merge_base(..)? leaves garbage_collect: the ids pushed so far
\* are dropped with to_remove, and neither read_file nor write_file was reached
gc_left_on_error(doc, list, target) == doc

garbage_collect ==
    /\ Called
    /\ UNCHANGED default_target
    /\ \/ /\ default_target = None
          /\ UNCHANGED branches
          /\ last' = Err("garbage_collect", None, "NotFound")
       \/ /\ default_target # None
          /\ \E iter \in IterationOrders(DOMAIN branches) :
                LET branches_not_in_workspace ==
                        SelectSeq(list_all_branches(branches, iter), NotInWorkspace)
                    to_remove == gc_to_remove(branches_not_in_workspace, Unwrap(default_target))
                IN  IF to_remove = None
                    THEN /\ branches' = gc_left_on_error(branches, branches_not_in_workspace,
                                                         Unwrap(default_target))
                         /\ last' = Err("garbage_collect", None, "merge_base")
                    ELSE /\ branches' = remove_all(branches, Unwrap(to_remove))
                         /\ last' = Ok("garbage_collect", None, None)

(***************************************************************************)
(* The store driven by one serialized caller.                              *)
(***************************************************************************)
\* the stacks a caller stores while the ordering is exercised
OrderingInputs ==
    {Stack(id, "lane", "c0", None, None, order, in_workspace, 1, None) :
        id \in StackIds, order \in 0..MaxOrder, in_workspace \in BOOLEAN}

TargetInputs == {Target("origin", "main", "c0")}

StoreCalls ==
    \/ \E op \in SingleWriteCalls : read_or_write_fails(op)
    \/ \E id \in StackIds : mark_as_not_in_workspace(id)
    \/ \E id \in StackIds : delete_branch_entry(id)
    \/ update_ordering
    \/ next_order_index
    \/ garbage_collect

Next ==
    \/ \E target \in TargetInputs : set_default_target(target)
    \/ \E branch \in OrderingInputs : set_branch(branch)
    \/ StoreCalls

Spec == Init /\ [][Next]_vars

(***************************************************************************)
(* The store under garbage collection: two stacks whose head, workspace    *)
(* flag and pending-work marker vary, and a target at c0 or at c1.         *)
(***************************************************************************)
GcStackIds == {"s1", "s2"}

GcInputs ==
    {Stack(id, "lane", "c0", None, None, 0, TRUE, 1, None) : id \in GcStackIds}
    \cup {Stack(id, "lane", head, None, None, 0, FALSE, 1, wip) :
            id \in GcStackIds, head \in {"c0", "c1", "c2", "cX"}, wip \in {None, Some("wip")}}

GcTargetInputs == {Target("origin", "main", sha) : sha \in {"c0", "c1"}}

NextGC ==
    \/ \E target \in GcTargetInputs : set_default_target(target)
    \/ \E branch \in GcInputs : set_branch(branch)
    \/ StoreCalls

SpecGC == Init /\ [][NextGC]_vars

(***************************************************************************)
(* The store written and read back: two stacks, each stored in one of three *)
(* shapes that differ in every field but the id, and read with get_branch  *)
(* and get_default_target.                                                 *)
(***************************************************************************)
GetStackIds == {"s1", "s2"}

\* a RemoteRefname and a Refname as a stack holds them
RemoteRefname(remote, branch) == [remote |-> remote, branch |-> branch]

Refname(kind, branch) == [kind |-> kind, branch |-> branch]

GetInputs ==
    UNION {{Stack(id, "lane", "c1", None, None, 0, TRUE, 1, None),
            Stack(id, "other", "c2", Some(RemoteRefname("origin", "feature")),
                  Some(Refname("Remote", "feature")), 1, FALSE, 2, Some("wip")),
            Stack(id, "lane", "c0", None, None, 0, FALSE, 1, None)} : id \in GetStackIds}

Gets ==
    \/ \E id \in GetStackIds : get_branch(id)
    \/ get_default_target
    \/ \E id \in GetStackIds : get_fails("get_branch", Some(id))
    \/ get_fails("get_default_target", None)

NextGet ==
    \/ \E target \in TargetInputs : set_default_target(target)
    \/ \E branch \in GetInputs : set_branch(branch)
    \/ StoreCalls
    \/ Gets

SpecGet == Init /\ [][NextGet]_vars

(***************************************************************************)
(* The store under callers that nothing serializes: each makes one         *)
(* set_branch, which is a read_file of the whole document and, in a later  *)
(* step, a write_file of the whole document; the steps of the callers      *)
(* interleave.                                                             *)
(***************************************************************************)
CallerIds == {"a", "b"}

\* the VirtualBranches document a read_file returns
VirtualBranches(target, stacks) == [default_target |-> target, branches |-> stacks]

\* a caller before its call; `at_read` and `at_write` will hold the callers whose
\* write_file had returned when this caller's read_file and write_file ran
Idle ==
    [pc |-> "idle", branch |-> None, virtual_branches |-> None,
     at_read |-> {}, at_write |-> {}]

\* the callers that have written the file
Written == {c \in DOMAIN callers : callers[c].pc = "ok"}

\* the frame of a step of a caller
Step == UNCHANGED <<refs, last, before, after_ordering, got, document, created>>

\* set_branch, line 102: let mut virtual_branches = self.read_file()?
set_branch_read_file(c, branch) ==
    /\ callers[c].pc = "idle"
    /\ Step
    /\ UNCHANGED <<default_target, branches>>
    /\ callers' = [callers EXCEPT ![c] =
                      [pc |-> "read", branch |-> Some(branch),
                       virtual_branches |-> Some(VirtualBranches(default_target, branches)),
                       at_read |-> Written, at_write |-> {}]]

\* a write that inserts the stack into the file as it is at the time of the write
insert_into_file(virtual_branches, file, branch) ==
    VirtualBranches(file.default_target, Insert(file.branches, branch.id, branch))

\* set_branch, line 103: the document that was read, with the stack inserted;
\* `file` is the document the file holds by now
insert_into_read(virtual_branches, file, branch) ==
    VirtualBranches(virtual_branches.default_target,
                    Insert(virtual_branches.branches, branch.id, branch))

\* set_branch, line 104: self.write_file(&virtual_branches)? replaces the file
set_branch_write_file(c) ==
    /\ callers[c].pc = "read"
    /\ Step
    /\ LET written == insert_into_read(Unwrap(callers[c].virtual_branches),
                                       VirtualBranches(default_target, branches),
                                       Unwrap(callers[c].branch))
       IN  /\ default_target' = written.default_target
           /\ branches' = written.branches
    /\ callers' = [callers EXCEPT ![c].pc = "ok", ![c].at_write = Written]

\* read_file()? or write_file()? fails: the caller gets Err, the file is as it was
set_branch_fails(c) ==
    /\ callers[c].pc \in {"idle", "read"}
    /\ Step
    /\ UNCHANGED <<default_target, branches>>
    /\ callers' = [callers EXCEPT ![c].pc = "err"]

\* what the callers store, and what the file may hold when they start
RaceInputs ==
    {Stack(id, "lane", "c0", None, None, order, TRUE, 2, None) :
        id \in {"s1", "s2"}, order \in {0, 1}}

RaceDocuments ==
    {EmptyMap} \cup {Insert(EmptyMap, id, Stack(id, "old", "c1", None, None, 0, TRUE, 1, None)) :
                        id \in {"s1", "s3"}}

InitRace ==
    /\ refs = <<>>
    /\ default_target \in {None, Some(Target("origin", "main", "c0"))}
    /\ branches \in RaceDocuments
    /\ last = Ok("new", None, None)
    /\ before = branches
    /\ after_ordering = "no"
    /\ got = None
    /\ callers = [c \in CallerIds |-> Idle]
    /\ document = EmptyDocument
    /\ created = Created("default", <<>>, <<>>)

NextRace ==
    \/ \E c \in CallerIds, branch \in RaceInputs : set_branch_read_file(c, branch)
    \/ \E c \in CallerIds : set_branch_write_file(c)
    \/ \E c \in CallerIds : set_branch_fails(c)

SpecRace == InitRace /\ [][NextRace]_vars

(***************************************************************************)
(* garbage_collect in steps: the reads and the loop that fill to_remove,   *)
(* then each write_file as a step of its own, so that the file can be      *)
(* looked at between the writes of one call.  The other calls run while no *)
(* collection is under way.                                                *)
(***************************************************************************)
CollectorIds == {"gc"}

\* a collector before its call; `started_from` will hold the document the call
\* read and `written` the number of write_file calls it has made
NotCollecting == [pc |-> "idle", to_remove |-> <<>>, started_from |-> EmptyMap, written |-> 0]

NoneCollecting == \A c \in DOMAIN callers : callers[c].pc = "idle"

\* a collection that writes the file once for every entry of to_remove
gc_writes_per_entry(doc, to_remove) ==
    [i \in 1..Len(to_remove) |-> remove_all(doc, SubSeq(to_remove, 1, i))]

\* garbage_collect, lines 264-271: the documents it writes, in order, when the
\* file holds `doc`: none if to_remove is empty, else one without all of them
gc_writes(doc, to_remove) ==
    IF to_remove = <<>> THEN <<>> ELSE <<remove_all(doc, to_remove)>>

\* garbage_collect, lines 242-263: get_default_target, list_all_branches and the loop
garbage_collect_marks(c) ==
    /\ callers[c].pc = "idle"
    /\ Step
    /\ UNCHANGED <<default_target, branches>>
    /\ \/ /\ default_target = None
          /\ callers' = [callers EXCEPT ![c].pc = "err", ![c].started_from = branches]
       \/ /\ default_target # None
          /\ \E iter \in IterationOrders(DOMAIN branches) :
                LET branches_not_in_workspace ==
                        SelectSeq(list_all_branches(branches, iter), NotInWorkspace)
                    to_remove == gc_to_remove(branches_not_in_workspace, Unwrap(default_target))
                IN  callers' = [callers EXCEPT ![c] =
                        IF to_remove = None
                        THEN [pc |-> "err", to_remove |-> <<>>,
                              started_from |-> branches, written |-> 0]
                        ELSE [pc |-> IF gc_writes(branches, Unwrap(to_remove)) = <<>>
                                     THEN "ok" ELSE "marked",
                              to_remove |-> Unwrap(to_remove),
                              started_from |-> branches, written |-> 0]]

\* garbage_collect, lines 265-270: read_file, the removals, and one write_file
garbage_collect_write_file(c) ==
    /\ callers[c].pc = "marked"
    /\ Step
    /\ UNCHANGED default_target
    /\ LET writes == gc_writes(branches, callers[c].to_remove)
           k == callers[c].written + 1
       IN  /\ branches' = writes[k]
           /\ callers' = [callers EXCEPT ![c].written = k,
                                         ![c].pc = IF k = Len(writes) THEN "ok" ELSE "marked"]

\* read_file()? or write_file()? fails: the collector gets Err, the file is as it was
garbage_collect_fails(c) ==
    /\ callers[c].pc \in {"idle", "marked"}
    /\ Step
    /\ UNCHANGED <<default_target, branches>>
    /\ callers' = [callers EXCEPT ![c].pc = "err",
                                  ![c].started_from = IF callers[c].pc = "idle" THEN branches
                                                      ELSE callers[c].started_from]

\* the call has returned; the collector can be called again
garbage_collect_returns(c) ==
    /\ callers[c].pc \in {"ok", "err"}
    /\ Step
    /\ UNCHANGED <<default_target, branches>>
    /\ callers' = [callers EXCEPT ![c] = NotCollecting]

InitCollect ==
    /\ refs = <<>>
    /\ default_target = None
    /\ branches = EmptyMap
    /\ last = Ok("new", None, None)
    /\ before = EmptyMap
    /\ after_ordering = "no"
    /\ got = None
    /\ callers = [c \in CollectorIds |-> NotCollecting]
    /\ document = EmptyDocument
    /\ created = Created("default", <<>>, <<>>)

NextCollect ==
    \/ NoneCollecting /\ \E target \in GcTargetInputs : set_default_target(target)
    \/ NoneCollecting /\ \E branch \in GcInputs : set_branch(branch)
    \/ \E c \in CollectorIds : garbage_collect_marks(c)
    \/ \E c \in CollectorIds : garbage_collect_write_file(c)
    \/ \E c \in CollectorIds : garbage_collect_fails(c)
    \/ \E c \in CollectorIds : garbage_collect_returns(c)

SpecCollect == InitCollect /\ [][NextCollect]_vars

(***************************************************************************)
(* update_ordering in steps, next to a caller that nothing serializes with *)
(* it: the listing, then for every listed stack the read_file and the      *)
(* write_file of its set_branch.  The other caller makes one call,         *)
(* delete_branch_entry or set_branch, which completes between two of       *)
(* these steps.                                                            *)
(***************************************************************************)
\* the caller of update_ordering before its call; `sorted` will hold the clones
\* of the listed stacks, `written` the number of them stored so far, and
\* `virtual_branches` the document the set_branch under way has read
NotOrdering == [pc |-> "idle", sorted |-> <<>>, written |-> 0, virtual_branches |-> None]

\* the other caller before its call; `at` and `during` will hold how many
\* stacks update_ordering had stored, and where it was, when the call completed
NotCalled == [pc |-> "idle", op |-> "", id |-> "", at |-> 0, during |-> ""]

\* update_ordering, lines 199-202: list_branches_in_workspace()?, sorted by order
update_ordering_lists(o) ==
    /\ callers[o].pc = "idle"
    /\ Step
    /\ UNCHANGED <<default_target, branches>>
    /\ \E iter \in IterationOrders(DOMAIN branches) :
          LET sorted == sorted_by_key(list_branches_in_workspace(branches, iter))
          IN  callers' = [callers EXCEPT ![o] =
                  [pc |-> IF sorted = <<>> THEN "ok" ELSE "listed",
                   sorted |-> sorted, written |-> 0, virtual_branches |-> None]]

\* a renumbering that gives the new order to the entry the file holds by now,
\* if it holds one
ordered_entry_of_file(sorted, k, file) ==
    IF sorted[k].id \in DOMAIN file THEN [file[sorted[k].id] EXCEPT !.order = OrderAt(k)]
    ELSE [sorted[k] EXCEPT !.order = OrderAt(k)]

\* update_ordering, lines 204-205: the clone of the listed stack with its index
\* as order; `file` is the map the file holds by now
ordered_clone(sorted, k, file) == [sorted[k] EXCEPT !.order = OrderAt(k)]

\* set_branch, line 102, called at line 206 for the next listed stack
update_ordering_read_file(o) ==
    /\ callers[o].pc = "listed"
    /\ Step
    /\ UNCHANGED <<default_target, branches>>
    /\ callers' = [callers EXCEPT ![o].pc = "read",
                                  ![o].virtual_branches =
                                      Some(VirtualBranches(default_target, branches))]

\* set_branch, lines 103-104, called at line 206: the document that was read,
\* with the clone inserted, replaces the file
update_ordering_write_file(o) ==
    /\ callers[o].pc = "read"
    /\ Step
    /\ LET k == callers[o].written + 1
           file == VirtualBranches(default_target, branches)
           written == insert_into_read(Unwrap(callers[o].virtual_branches), file,
                                       ordered_clone(callers[o].sorted, k, branches))
       IN  /\ default_target' = written.default_target
           /\ branches' = written.branches
           /\ callers' = [callers EXCEPT
                             ![o].written = k,
                             ![o].virtual_branches = None,
                             ![o].pc = IF k = Len(callers[o].sorted) THEN "ok" ELSE "listed"]

\* the listing fails, or a set_branch is not Ok and `all` stops: Err, and the
\* file is as the last write left it
update_ordering_fails(o) ==
    /\ callers[o].pc \in {"idle", "listed", "read"}
    /\ Step
    /\ UNCHANGED <<default_target, branches>>
    /\ callers' = [callers EXCEPT ![o].pc = "err", ![o].virtual_branches = None]

\* delete_branch_entry(id) of the other caller `x`, from its read_file to its write_file
meanwhile_delete_branch_entry(x, o, id) ==
    /\ callers[x].pc = "idle"
    /\ Step
    /\ UNCHANGED default_target
    /\ branches' = Remove(branches, id)
    /\ callers' = [callers EXCEPT ![x] =
                      [pc |-> "done", op |-> "delete_branch_entry", id |-> id,
                       at |-> callers[o].written, during |-> callers[o].pc]]

\* set_branch(branch) of the other caller `x`, from its read_file to its write_file
meanwhile_set_branch(x, o, branch) ==
    /\ callers[x].pc = "idle"
    /\ Step
    /\ UNCHANGED default_target
    /\ branches' = Insert(branches, branch.id, branch)
    /\ callers' = [callers EXCEPT ![x] =
                      [pc |-> "done", op |-> "set_branch", id |-> branch.id,
                       at |-> callers[o].written, during |-> callers[o].pc]]

\* the stacks the file holds when the two callers start, and those the other
\* caller stores
ReorderStackIds == {"s1", "s2"}

ReorderStored ==
    {Stack(id, "lane", "c0", None, None, order, in_workspace, 1, None) :
        id \in ReorderStackIds, order \in {1, 2}, in_workspace \in BOOLEAN}

ReorderDocuments ==
    UNION {{doc \in [ids -> ReorderStored] : \A id \in ids : doc[id].id = id} :
            ids \in SUBSET ReorderStackIds}

ReorderInputs ==
    {Stack(id, "renamed", "c1", None, None, 0, in_workspace, 2, None) :
        id \in ReorderStackIds, in_workspace \in BOOLEAN}

InitReorder ==
    /\ refs = <<>>
    /\ default_target \in {None, Some(Target("origin", "main", "c0"))}
    /\ branches \in ReorderDocuments
    /\ last = Ok("new", None, None)
    /\ before = branches
    /\ after_ordering = "no"
    /\ got = None
    /\ callers = [c \in {"orderer", "other"} |->
                     IF c = "orderer" THEN NotOrdering ELSE NotCalled]
    /\ document = EmptyDocument
    /\ created = Created("default", <<>>, <<>>)

NextReorder ==
    \/ update_ordering_lists("orderer")
    \/ update_ordering_read_file("orderer")
    \/ update_ordering_write_file("orderer")
    \/ update_ordering_fails("orderer")
    \/ \E id \in ReorderStackIds : meanwhile_delete_branch_entry("other", "orderer", id)
    \/ \E branch \in ReorderInputs : meanwhile_set_branch("other", "orderer", branch)

SpecReorder == InitReorder /\ [][NextReorder]_vars

(***************************************************************************)
(* list_branches: the repository's branches and the virtual branches,      *)
(* grouped by identity into one BranchListing each.                        *)
(***************************************************************************)
\* a git2::Branch: refs/heads/<short> (Local) or refs/remotes/<remote>/<short>
\* (Remote); target is what peel_to_commit().ok() gives
GitBranch(kind, remote, short, target) ==
    [kind |-> kind, remote |-> remote, short |-> short, target |-> target]

\* the text of a name, as the pieces that names of the model are made of
Text(name) == IF name = "my-feature" THEN <<"my-", "feature">> ELSE <<name>>

\* branch.name(): the shorthand, "<short>" or "<remote>/<short>"
shorthand(ref) ==
    IF ref.kind = "Local" THEN Text(ref.short) ELSE <<ref.remote, "/">> \o Text(ref.short)

\* str::ends_with
ends_with(text, suffix) ==
    /\ Len(suffix) <= Len(text)
    /\ SubSeq(text, Len(text) - Len(suffix) + 1, Len(text)) = suffix

\* ReferenceExt::given_name(remotes): the shorthand without the name of the
\* remote; Err (None) for a remote-tracking branch of no configured remote
given_name(ref) ==
    IF ref.kind = "Local" THEN Some(ref.short)
    ELSE IF ref.remote \in KnownRemotes THEN Some(ref.short) ELSE None

\* repo.branch_remote_name(refname).ok()
branch_remote_name(ref) ==
    IF ref.kind = "Remote" /\ ref.remote \in KnownRemotes THEN Some(ref.remote) ELSE None

\* normalize_branch_name(name).ok(): the name as a reference could carry it
normalize_branch_name(name) ==
    IF name = "" THEN None
    ELSE IF name = "my feature" THEN Some("my-feature")
    ELSE Some(name)

\* Refname::branch(): the branch a Local, Remote or Virtual refname names
refname_branch(refname) == IF refname.kind = "Other" THEN None ELSE Some(refname.branch)

\* GroupBranch::Local(branch), GroupBranch::Remote(branch), GroupBranch::Virtual(stack)
GroupBranch(kind, branch) == [kind |-> kind, branch |-> branch]

\* GroupBranch::identity
identity(group_branch) ==
    IF group_branch.kind \in {"Local", "Remote"} THEN given_name(group_branch.branch)
    ELSE LET branch == group_branch.branch
             name_from_source ==
                 IF branch.source_refname = None THEN None
                 ELSE refname_branch(Unwrap(branch.source_refname))
             name_from_upstream ==
                 IF branch.upstream = None THEN None
                 ELSE Some(Unwrap(branch.upstream).branch)
             rich_name == normalize_branch_name(branch.name)
         IN  IF rich_name = None THEN None
             ELSE IF name_from_source # None THEN name_from_source
             ELSE IF name_from_upstream # None THEN name_from_upstream
             ELSE rich_name

\* a denylist of the branches GitButler itself writes
should_list_unless_gitbutler(name) ==
    name \notin {"gitbutler/integration", "gitbutler/target", "gitbutler/oplog"}

should_list_git_branch(name) ==
    name \notin {"gitbutler/integration", "gitbutler/target", "gitbutler/oplog", "HEAD"}

\* a grouping that opens a group for every branch
push_new_group(groups, name, group_branch) ==
    Append(groups, [identity |-> name, members |-> <<group_branch>>])

\* groups.entry(identity).or_default().push(branch); the map is kept as the
\* sequence of its entries, in the order in which the keys came in
entry_push(groups, name, group_branch) ==
    IF \E i \in DOMAIN groups : groups[i].identity = name
    THEN [i \in DOMAIN groups |->
            IF groups[i].identity = name
            THEN [groups[i] EXCEPT !.members = Append(@, group_branch)]
            ELSE groups[i]]
    ELSE Append(groups, [identity |-> name, members |-> <<group_branch>>])

\* the loop of combine_branches that groups the branches by identity
RECURSIVE group_by_identity(_)
group_by_identity(group_branches) ==
    IF group_branches = <<>> THEN <<>>
    ELSE LET groups == group_by_identity(SubSeq(group_branches, 1, Len(group_branches) - 1))
             group_branch == group_branches[Len(group_branches)]
             name == identity(group_branch)
         IN  IF name = None THEN groups
             ELSE IF ~should_list_git_branch(Unwrap(name)) THEN groups
             ELSE entry_push(groups, Unwrap(name), group_branch)

IsVirtual(group_branch) == group_branch.kind = "Virtual"

IsRemote(group_branch) == group_branch.kind = "Remote"

IsLocal(group_branch) == group_branch.kind = "Local"

\* the branches of the members a test selects
BranchesOf(members) == [i \in DOMAIN members |-> members[i].branch]

\* the place a stable sort by updated_timestamp_ms gives `stack` when it follows the sorted `s`
InsertByTimestamp(s, stack) ==
    LET k == Cardinality({i \in DOMAIN s :
                            s[i].updated_timestamp_ms <= stack.updated_timestamp_ms})
    IN  SubSeq(s, 1, k) \o <<stack>> \o SubSeq(s, k + 1, Len(s))

\* vbranches.sort_by_key(|virtual_branch| virtual_branch.updated_timestamp_ms)
RECURSIVE sort_by_timestamp(_)
sort_by_timestamp(s) ==
    IF s = <<>> THEN <<>>
    ELSE InsertByTimestamp(sort_by_timestamp(SubSeq(s, 1, Len(s) - 1)), s[Len(s)])

\* a choice that takes the virtual branches as they come and keeps the last
select_last_listed(vbranches) ==
    IF vbranches = <<>> THEN None ELSE Some(vbranches[Len(vbranches)])

\* the virtual branch of a group: the last of the sorted ones if there are several
select_virtual_branch(vbranches) ==
    IF Len(vbranches) > 1
    THEN LET sorted == sort_by_timestamp(vbranches) IN Some(sorted[Len(sorted)])
    ELSE IF vbranches = <<>> THEN None ELSE Some(vbranches[1])

\* whether the group is the target's own branch and is left out
is_target_group(virtual_branch, local_branches, target) ==
    /\ virtual_branch = None
    /\ \E i \in DOMAIN local_branches :
          given_name(local_branches[i]) = Some(target.branch.branch)

\* the remote names pushed for the remote branches of the group
RECURSIVE collect_remotes(_)
collect_remotes(remote_branches) ==
    IF remote_branches = <<>> THEN <<>>
    ELSE LET remote_name == branch_remote_name(Head(remote_branches))
         IN  (IF remote_name = None THEN <<>> ELSE <<Unwrap(remote_name)>>)
             \o collect_remotes(Tail(remote_branches))

\* a choice of head that goes on to the next kind of branch when one does not peel
head_first_that_peels(virtual_branch, local_branches, remote_branches) ==
    IF virtual_branch # None THEN Some(Unwrap(virtual_branch).head)
    ELSE IF local_branches # <<>> /\ local_branches[1].target # None
         THEN local_branches[1].target
    ELSE IF remote_branches # <<>> THEN remote_branches[1].target
    ELSE None

\* a choice of head that looks at the local branch first
head_local_first(virtual_branch, local_branches, remote_branches) ==
    IF local_branches # <<>> THEN local_branches[1].target
    ELSE IF virtual_branch # None THEN Some(Unwrap(virtual_branch).head)
    ELSE IF remote_branches # <<>> THEN remote_branches[1].target
    ELSE None

\* the head of interest: Some(oid), or None when .context(..)? fails
head_of_interest(virtual_branch, local_branches, remote_branches) ==
    IF virtual_branch # None THEN Some(Unwrap(virtual_branch).head)
    ELSE IF local_branches # <<>> THEN local_branches[1].target
    ELSE IF remote_branches # <<>> THEN remote_branches[1].target
    ELSE None

\* `x as u128` of an i64: negative values wrap; the width is scaled down to TLC's integers
U128Wrap == 1073741824

as_u128(x) == x % U128Wrap

Max(a, b) == IF a >= b THEN a ELSE b

\* branch_group_to_branch: Some(BranchListing), or None for Ok(None) and for Err
branch_group_to_branch(name, members, target) ==
    LET vbranches == BranchesOf(SelectSeq(members, IsVirtual))
        virtual_branch == select_virtual_branch(vbranches)
        remote_branches == BranchesOf(SelectSeq(members, IsRemote))
        local_branches == BranchesOf(SelectSeq(members, IsLocal))
        virtual_branch_reference ==
            IF virtual_branch = None THEN None
            ELSE Some([given_name |-> Unwrap(virtual_branch).name,
                       id |-> Unwrap(virtual_branch).id,
                       in_workspace |-> Unwrap(virtual_branch).in_workspace])
        head == head_of_interest(virtual_branch, local_branches, remote_branches)
    IN  IF is_target_group(virtual_branch, local_branches, target) THEN None
        ELSE IF head = None THEN None
        ELSE IF ~find_commit_ok(Unwrap(head)) THEN None
        ELSE Some([name |-> name,
                   remotes |-> collect_remotes(remote_branches),
                   virtual_branch |-> virtual_branch_reference,
                   updated_at |->
                       Max(as_u128(CommitSeconds[Unwrap(head)] * 1000),
                           IF virtual_branch = None THEN 0
                           ELSE Unwrap(virtual_branch).updated_timestamp_ms),
                   last_commiter |-> CommitAuthor[Unwrap(head)],
                   has_local |-> local_branches # <<>>,
                   head |-> Unwrap(head)])

\* a Vec whose order the code leaves to a HashMap: each element with the
\* number of times it occurs
VecOf(s) == [e \in {s[i] : i \in DOMAIN s} |-> Cardinality({i \in DOMAIN s : s[i] = e})]

\* Vec::retain, given the elements the test keeps
Retain(vec, kept) == [e \in DOMAIN vec \cap kept |-> vec[e]]

\* a conversion that gives up on all groups when one of them gives no entry
combine_branches_or_nothing(group_branches, target) ==
    LET groups == group_by_identity(group_branches)
        entries == [i \in DOMAIN groups |->
                       branch_group_to_branch(groups[i].identity, groups[i].members, target)]
    IN  IF \E i \in DOMAIN entries : entries[i] = None THEN VecOf(<<>>)
        ELSE VecOf([i \in DOMAIN entries |-> Unwrap(entries[i])])

\* combine_branches: the listing of the groups that give an entry
combine_branches(group_branches, target) ==
    LET groups == group_by_identity(group_branches)
        entries == [i \in DOMAIN groups |->
                       branch_group_to_branch(groups[i].identity, groups[i].members, target)]
        IsSome(entry) == entry # None
        listed == SelectSeq(entries, IsSome)
    IN  VecOf([i \in DOMAIN listed |-> Unwrap(listed[i])])

\* BranchListingFilter { local, applied }
BranchListingFilter(local, applied) == [local |-> local, applied |-> applied]

\* the condition matches_all pushes for `local`
local_condition(branch, local) ==
    (branch.has_local \/ branch.virtual_branch # None) /\ local

\* a test of `applied` that lets every branch without virtual branch pass
applied_condition_lax(branch, applied) ==
    IF branch.virtual_branch # None
    THEN applied = Unwrap(branch.virtual_branch).in_workspace
    ELSE TRUE

\* the condition matches_all pushes for `applied`
applied_condition(branch, applied) ==
    IF branch.virtual_branch # None
    THEN applied = Unwrap(branch.virtual_branch).in_workspace
    ELSE ~applied

matches_all(branch, filter) ==
    LET conditions ==
            (IF filter.applied # None
             THEN <<applied_condition(branch, Unwrap(filter.applied))>> ELSE <<>>)
            \o (IF filter.local # None
                THEN <<local_condition(branch, Unwrap(filter.local))>> ELSE <<>>)
    IN  \A i \in DOMAIN conditions : conditions[i]

\* the branches of the repository that pass the loose match on the names
name_matched(ref, filter_branch_names) ==
    \/ filter_branch_names = None
    \/ \E i \in DOMAIN Unwrap(filter_branch_names) :
          ends_with(shorthand(ref), Text(Unwrap(filter_branch_names)[i]))

\* the Vec<GroupBranch> list_branches hands to combine_branches: the branches of
\* the repository, then the virtual branches
group_branches_of(git_branches, virtual_branches) ==
    [i \in DOMAIN git_branches |-> GroupBranch(git_branches[i].kind, git_branches[i])]
    \o [i \in DOMAIN virtual_branches |-> GroupBranch("Virtual", virtual_branches[i])]

\* a test that lets a name pass that ends with a listed name
name_ends_with_listed(name, branch_names) ==
    \E i \in DOMAIN branch_names : ends_with(Text(name), Text(branch_names[i]))

\* branch_names.contains(&branch_listing.name)
name_listed(name, branch_names) ==
    \E i \in DOMAIN branch_names : branch_names[i] = name

\* list_branches(ctx, filter, filter_branch_names); `iter` is the order in
\* which list_all_branches yields the virtual branches.  The result holds
\* `all`, what combine_branches returned, and `listing`, what is left of it.
list_branches_result(filter, filter_branch_names, iter) ==
    LET NameMatched(ref) == name_matched(ref, filter_branch_names)
        git_branches == SelectSeq(refs, NameMatched)
        virtual_branches == list_all_branches(branches, iter)
        group_branches == group_branches_of(git_branches, virtual_branches)
        all == combine_branches(group_branches, Unwrap(default_target))
        has_filter == filter # None
        filter_or_default ==
            IF has_filter THEN Unwrap(filter) ELSE BranchListingFilter(None, None)
        Matches(branch) == ~has_filter \/ matches_all(branch, filter_or_default)
        Named(branch) ==
            \/ filter_branch_names = None
            \/ name_listed(branch.name, Unwrap(filter_branch_names))
        filtered == Retain(all, {branch \in DOMAIN all : Matches(branch)})
    IN  [all |-> all,
         listing |-> Retain(filtered, {branch \in DOMAIN filtered : Named(branch)})]

list_branches(filter, filter_branch_names) ==
    /\ Called
    /\ UNCHANGED <<default_target, branches>>
    /\ LET arg == Some([filter |-> filter, filter_branch_names |-> filter_branch_names])
       IN  \/ /\ default_target = None
              /\ last' = Err("list_branches", arg, "NotFound")
           \/ /\ default_target # None
              /\ \E iter \in IterationOrders(DOMAIN branches) :
                    last' = Ok("list_branches", arg,
                               Some(list_branches_result(filter, filter_branch_names, iter)))

(***************************************************************************)
(* The listing of a repository with the branches main and feature, local   *)
(* and on two remotes, and up to two virtual branches.                     *)
(***************************************************************************)
\* the branches a repository of the model can hold, in the order of their names
AllGitBranches ==
    << GitBranch("Local", "", "feature", Some("c1")),
       GitBranch("Local", "", "main", Some("c0")),
       GitBranch("Remote", "origin", "feature", Some("c0")),
       GitBranch("Remote", "origin", "main", Some("c1")),
       GitBranch("Remote", "upstream", "feature", Some("c1")) >>

\* the branches of AllGitBranches at the places `keep`, in their order
RECURSIVE Pick(_, _)
Pick(s, keep) ==
    IF s = <<>> THEN <<>>
    ELSE Pick(SubSeq(s, 1, Len(s) - 1), keep)
         \o (IF Len(s) \in keep THEN <<s[Len(s)]>> ELSE <<>>)

RefInputs == {Pick(AllGitBranches, keep) : keep \in SUBSET DOMAIN AllGitBranches}

ListStackIds == {"s1", "s2"}

\* the virtual branches of the listing: named feature or main, each with a head
\* that no branch of the repository points to
ListStackInputs ==
    {Stack(id, name, IF id = "s1" THEN "c3" ELSE "c2", None, None, 0, in_workspace, ts, None) :
        id \in ListStackIds, name \in {"feature", "main"},
        in_workspace \in BOOLEAN, ts \in {500, 5000}}

\* the documents that hold some of these, each under its id
ListDocuments ==
    UNION {{doc \in [ids -> ListStackInputs] : \A id \in ids : doc[id].id = id} :
            ids \in SUBSET ListStackIds}

FilterInputs ==
    {None} \cup {Some(BranchListingFilter(local, applied)) :
                    local \in {None, Some(TRUE), Some(FALSE)},
                    applied \in {None, Some(TRUE), Some(FALSE)}}

InitList ==
    /\ refs \in RefInputs
    /\ branches \in ListDocuments
    /\ default_target \in {None, Some(Target("origin", "main", "c0"))}
    /\ default_target = None => refs = <<>>
    /\ last = Ok("new", None, None)
    /\ before = branches
    /\ after_ordering = "no"
    /\ got = None
    /\ callers = NoCallers
    /\ document = EmptyDocument
    /\ created = Created("default", <<>>, <<>>)

NextList ==
    \/ \E filter \in FilterInputs : list_branches(filter, None)
    \/ read_or_write_fails("list_branches")

SpecList == InitList /\ [][NextList]_vars

(***************************************************************************)
(* The listing under an allow-list of names: a repository with the         *)
(* branches feature and my-feature, local and on origin, and up to two     *)
(* virtual branches named "feature" or "my feature".                       *)
(***************************************************************************)
NamedGitBranches ==
    << GitBranch("Local", "", "feature", Some("c1")),
       GitBranch("Local", "", "my-feature", Some("c0")),
       GitBranch("Remote", "origin", "feature", Some("c0")),
       GitBranch("Remote", "origin", "my-feature", Some("c1")) >>

NamedRefInputs == {Pick(NamedGitBranches, keep) : keep \in SUBSET DOMAIN NamedGitBranches}

NamedStackInputs ==
    {Stack(id, name, IF id = "s1" THEN "c3" ELSE "c2", None, None, 0, TRUE, ts, None) :
        id \in ListStackIds, name \in {"feature", "my feature"}, ts \in {500, 5000}}

NamedDocuments ==
    UNION {{doc \in [ids -> NamedStackInputs] : \A id \in ids : doc[id].id = id} :
            ids \in SUBSET ListStackIds}

\* the allow-lists a caller passes
NameListInputs ==
    {Some(<<>>), Some(<<"feature">>), Some(<<"my-feature">>), Some(<<"my-feature", "feature">>)}

InitNames ==
    /\ refs \in NamedRefInputs
    /\ branches \in NamedDocuments
    /\ default_target = Some(Target("origin", "main", "c0"))
    /\ last = Ok("new", None, None)
    /\ before = branches
    /\ after_ordering = "no"
    /\ got = None
    /\ callers = NoCallers
    /\ document = EmptyDocument
    /\ created = Created("default", <<>>, <<>>)

NextNames ==
    \/ \E filter \in {None, Some(BranchListingFilter(Some(TRUE), None))},
          filter_branch_names \in NameListInputs :
            list_branches(filter, filter_branch_names)
    \/ read_or_write_fails("list_branches")

SpecNames == InitNames /\ [][NextNames]_vars

(***************************************************************************)
(* The listing of groups that are hard to resolve: local branches that do  *)
(* not peel to a commit, virtual branches with a source or an upstream     *)
(* reference, with a name that does not normalize, or with a head the      *)
(* repository does not hold.                                               *)
(***************************************************************************)
\* for each branch the repository may hold, the targets it may have
GroupGitBranches ==
    << {GitBranch("Local", "", "feature", target) : target \in {Some("c1"), None}},
       {GitBranch("Local", "", "topic", target) : target \in {Some("c2"), None}},
       {GitBranch("Remote", "origin", "feature", Some("c0"))},
       {GitBranch("Remote", "origin", "topic", Some("c1"))},
       {GitBranch("Remote", "upstream", "feature", Some("c1"))} >>

\* the repositories that hold some of these branches, in the order of their names
RECURSIVE Repositories(_)
Repositories(choices) ==
    IF choices = <<>> THEN {<<>>}
    ELSE LET rest == Repositories(SubSeq(choices, 1, Len(choices) - 1))
         IN  rest \cup {Append(r, b) : r \in rest, b \in choices[Len(choices)]}

GroupRefInputs == Repositories(GroupGitBranches)

GroupStackInputs ==
    {Stack("s1", name, head, upstream, source_refname, 0, TRUE, 500, None) :
        name \in {"feature", ""}, head \in {"c3", "cX"},
        upstream \in {None, Some(RemoteRefname("origin", "feature"))},
        source_refname \in {None, Some(Refname("Remote", "topic")), Some(Refname("Other", "HEAD"))}}
    \cup {Stack("s2", "topic", "c2", None, None, 1, FALSE, 5000, None)}

GroupDocuments ==
    UNION {{doc \in [ids -> GroupStackInputs] : \A id \in ids : doc[id].id = id} :
            ids \in SUBSET ListStackIds}

InitGroups ==
    /\ refs \in GroupRefInputs
    /\ branches \in GroupDocuments
    /\ default_target = Some(Target("origin", "main", "c0"))
    /\ last = Ok("new", None, None)
    /\ before = branches
    /\ after_ordering = "no"
    /\ got = None
    /\ callers = NoCallers
    /\ document = EmptyDocument
    /\ created = Created("default", <<>>, <<>>)

NextGroups ==
    \/ list_branches(None, None)
    \/ read_or_write_fails("list_branches")

SpecGroups == InitGroups /\ [][NextGroups]_vars

(***************************************************************************)
(* The listing of a repository that holds GitButler's own branches and the *)
(* remote's HEAD next to a branch of the user, and virtual branches whose  *)
(* source, upstream or name is one of those.                               *)
(***************************************************************************)
TechnicalGitBranches ==
    << {GitBranch("Local", "", "feature", Some("c1"))},
       {GitBranch("Local", "", "gitbutler/integration", Some("c3"))},
       {GitBranch("Local", "", "gitbutler/target", Some("c0"))},
       {GitBranch("Remote", "origin", "HEAD", Some("c0"))},
       {GitBranch("Remote", "origin", "gitbutler/oplog", Some("c2"))},
       {GitBranch("Remote", "origin", "feature", Some("c0"))} >>

TechnicalRefInputs == Repositories(TechnicalGitBranches)

TechnicalStackInputs ==
    {Stack("s1", name, "c3", upstream, source_refname, 0, TRUE, 500, None) :
        name \in {"feature", "HEAD", "gitbutler/oplog"},
        upstream \in {None, Some(RemoteRefname("origin", "gitbutler/target"))},
        source_refname \in {None, Some(Refname("Local", "gitbutler/integration")),
                            Some(Refname("Remote", "HEAD"))}}
    \cup {Stack("s2", name, "c2", None, None, 1, FALSE, 5000, None) :
            name \in {"feature", "gitbutler/integration"}}

TechnicalDocuments ==
    UNION {{doc \in [ids -> TechnicalStackInputs] : \A id \in ids : doc[id].id = id} :
            ids \in SUBSET ListStackIds}

InitTechnical ==
    /\ refs \in TechnicalRefInputs
    /\ branches \in TechnicalDocuments
    /\ default_target = Some(Target("origin", "main", "c0"))
    /\ last = Ok("new", None, None)
    /\ before = branches
    /\ after_ordering = "no"
    /\ got = None
    /\ callers = NoCallers
    /\ document = EmptyDocument
    /\ created = Created("default", <<>>, <<>>)

NextTechnical ==
    \/ \E filter \in {None, Some(BranchListingFilter(None, Some(TRUE)))} :
          list_branches(filter, None)
    \/ read_or_write_fails("list_branches")

SpecTechnical == InitTechnical /\ [][NextTechnical]_vars

(***************************************************************************)
(* The listing of a repository with a branch whose head was committed      *)
(* before 1970, and virtual branches with such a head.                     *)
(***************************************************************************)
TimedGitBranches ==
    << {GitBranch("Local", "", "feature", Some("c1"))},
       {GitBranch("Local", "", "old", Some("c4"))},
       {GitBranch("Remote", "origin", "archive", Some("c4"))},
       {GitBranch("Remote", "origin", "feature", Some("c0"))} >>

TimedRefInputs == Repositories(TimedGitBranches)

TimedStackInputs ==
    {Stack(id, name, head, None, None, 0, TRUE, ts, None) :
        id \in ListStackIds, name \in {"feature", "lane"},
        head \in {"c2", "c4"}, ts \in {0, 500, 5000}}

TimedDocuments ==
    UNION {{doc \in [ids -> TimedStackInputs] : \A id \in ids : doc[id].id = id} :
            ids \in SUBSET ListStackIds}

InitTimes ==
    /\ refs \in TimedRefInputs
    /\ branches \in TimedDocuments
    /\ default_target = Some(Target("origin", "main", "c0"))
    /\ last = Ok("new", None, None)
    /\ before = branches
    /\ after_ordering = "no"
    /\ got = None
    /\ callers = NoCallers
    /\ document = EmptyDocument
    /\ created = Created("default", <<>>, <<>>)

NextTimes ==
    \/ list_branches(None, None)
    \/ read_or_write_fails("list_branches")

SpecTimes == InitTimes /\ [][NextTimes]_vars

(***************************************************************************)
(* get_branch_listing_details: the listing of the named branches, each     *)
(* entry enriched with the statistics of its head against the target.      *)
(***************************************************************************)
\* repo.diff_tree_to_tree(base_tree, head_tree).stats() of two one-file trees
diff_stats(base_lines, head_lines) ==
    [insertions |-> Max(head_lines - base_lines, 0),
     deletions |-> Max(base_lines - head_lines, 0),
     files_changed |-> IF base_lines = head_lines THEN 0 ELSE 1]

\* revwalk.push(head), revwalk.hide(base): the commits of head that base does not reach
revwalk(head, base) == Ancestors(head) \ Ancestors(base)

\* the body of the loop of get_branch_listing_details for one entry: "skipped"
\* when the merge base does not resolve, "failed" when a `?` leaves the function,
\* else "enriched" with the BranchListingDetails
enrich(branch, target) ==
    LET base == merge_base(target.sha, branch.head)
    IN  IF base = None THEN [kind |-> "skipped", data |-> None]
        ELSE IF TreeLines[Unwrap(base)] = None \/ TreeLines[branch.head] = None
        THEN [kind |-> "failed", data |-> None]
        ELSE LET stats == diff_stats(Unwrap(TreeLines[Unwrap(base)]),
                                     Unwrap(TreeLines[branch.head]))
                 commits == revwalk(branch.head, Unwrap(base))
             IN  [kind |-> "enriched",
                  data |-> Some([name |-> branch.name,
                                 lines_added |-> stats.insertions,
                                 lines_removed |-> stats.deletions,
                                 number_of_files |-> stats.files_changed,
                                 authors |-> {CommitAuthor[c] : c \in commits},
                                 number_of_commits |-> Cardinality(commits)])]

\* the BranchListingDetails of the entries of `listing` that are enriched
enriched_branches(listing, target) ==
    {Unwrap(enrich(branch, target).data) :
        branch \in {b \in DOMAIN listing : enrich(b, target).kind = "enriched"}}

get_branch_listing_details(branch_names) ==
    /\ Called
    /\ UNCHANGED <<default_target, branches>>
    /\ IF default_target = None
       THEN last' = Err("get_branch_listing_details", Some(branch_names), "NotFound")
       ELSE \E iter \in IterationOrders(DOMAIN branches) :
              LET listing == list_branches_result(None, Some(branch_names), iter).listing
                  target == Unwrap(default_target)
              IN  IF \E branch \in DOMAIN listing : enrich(branch, target).kind = "failed"
                  THEN last' = Err("get_branch_listing_details", Some(branch_names), "tree")
                  ELSE last' = Ok("get_branch_listing_details", Some(branch_names),
                                  Some(enriched_branches(listing, target)))

\* the names a caller asks the details of
DetailNameInputs == {Unwrap(names) : names \in NameListInputs}

NextDetails ==
    \/ \E branch_names \in DetailNameInputs : get_branch_listing_details(branch_names)
    \/ read_or_write_fails("get_branch_listing_details")

SpecDetails == InitNames /\ [][NextDetails]_vars

(***************************************************************************)
(* TextDocument (deltas.rs): a text and the deltas that were applied to    *)
(* it.  A text is the sequence of its characters.                          *)
(***************************************************************************)
\* the elements of `s` at the places `keep`, in their order
Subsequence(s, keep) == Pick(s, keep)

\* the sequences that are a subsequence of both texts
CommonSubsequences(initial_text, final_text) ==
    {Subsequence(initial_text, keep) : keep \in SUBSET DOMAIN initial_text}
    \cap {Subsequence(final_text, keep) : keep \in SUBSET DOMAIN final_text}

\* difference::lcs: a longest common subsequence; which one of several of the
\* same length the crate finds is left open
LongestCommonSubsequences(initial_text, final_text) ==
    {c \in CommonSubsequences(initial_text, final_text) :
        \A d \in CommonSubsequences(initial_text, final_text) : Len(d) <= Len(c)}

\* the number of leading elements that the three sequences share
RECURSIVE SameRun(_, _, _)
SameRun(l, r, c) ==
    IF l # <<>> /\ r # <<>> /\ c # <<>> /\ l[1] = c[1] /\ r[1] = c[1]
    THEN 1 + SameRun(Tail(l), Tail(r), Tail(c))
    ELSE 0

\* the number of leading elements of `s` that differ from the next element of `c`
RECURSIVE DifferentRun(_, _)
DifferentRun(s, c) ==
    IF s # <<>> /\ (c = <<>> \/ s[1] # c[1]) THEN 1 + DifferentRun(Tail(s), c) ELSE 0

Difference(kind, text) == [kind |-> kind, text |-> text]

\* difference::merge: the edit script around the common subsequence `c`: what
\* is the same, then what `l` has before the next common element (Rem), then
\* what `r` has before it (Add), and so on
RECURSIVE merge(_, _, _)
merge(l, r, c) ==
    IF l = <<>> /\ r = <<>> THEN <<>>
    ELSE LET same == SameRun(l, r, c)
             l1 == SubSeq(l, same + 1, Len(l))
             r1 == SubSeq(r, same + 1, Len(r))
             c1 == SubSeq(c, same + 1, Len(c))
             rem == DifferentRun(l1, c1)
             add == DifferentRun(r1, c1)
         IN  (IF same > 0 THEN <<Difference("Same", SubSeq(l, 1, same))>> ELSE <<>>)
             \o (IF rem > 0 THEN <<Difference("Rem", SubSeq(l1, 1, rem))>> ELSE <<>>)
             \o (IF add > 0 THEN <<Difference("Add", SubSeq(r1, 1, add))>> ELSE <<>>)
             \o merge(SubSeq(l1, rem + 1, Len(l1)), SubSeq(r1, add + 1, Len(r1)), c1)

\* Changeset::new(initial_text, final_text, "").diffs: the edit scripts the crate can give
Changesets(initial_text, final_text) ==
    {merge(initial_text, final_text, c) :
        c \in LongestCommonSubsequences(initial_text, final_text)}

\* Operation::Insert((index, chunk)) and Operation::Delete((index, len))
OpInsert(index, chunk) == [kind |-> "Insert", index |-> index, chunk |-> chunk, len |-> 0]

OpDelete(index, len) == [kind |-> "Delete", index |-> index, chunk |-> <<>>, len |-> len]

\* the loop of get_delta_operations over the diffs, from the offset `offset`
RECURSIVE delta_operations(_, _)
delta_operations(diffs, offset) ==
    IF diffs = <<>> THEN <<>>
    ELSE LET edit == Head(diffs)
         IN  IF edit.kind = "Rem"
             THEN <<OpDelete(offset, Len(edit.text))>> \o delta_operations(Tail(diffs), offset)
             ELSE IF edit.kind = "Add"
             THEN <<OpInsert(offset, edit.text)>> \o delta_operations(Tail(diffs), offset)
             ELSE delta_operations(Tail(diffs), offset + Len(edit.text))

\* get_delta_operations(initial_text, final_text): the operations it can return
get_delta_operations(initial_text, final_text) ==
    IF initial_text = final_text THEN {<<>>}
    ELSE {delta_operations(diffs, 0) : diffs \in Changesets(initial_text, final_text)}

Min(a, b) == IF a <= b THEN a ELSE b

\* text.insert(txn, index, chunk) and text.remove_range(txn, index, len)
apply_operation(text, operation) ==
    LET index == Min(operation.index, Len(text))
    IN  IF operation.kind = "Insert"
        THEN SubSeq(text, 1, index) \o operation.chunk \o SubSeq(text, index + 1, Len(text))
        ELSE SubSeq(text, 1, index)
             \o SubSeq(text, Min(index + operation.len, Len(text)) + 1, Len(text))

RECURSIVE apply_operations(_, _)
apply_operations(text, operations) ==
    IF operations = <<>> THEN text
    ELSE apply_operations(apply_operation(text, Head(operations)), Tail(operations))

\* Delta { operations, timestamp_ms }
Delta(operations, timestamp_ms) == [operations |-> operations, timestamp_ms |-> timestamp_ms]

\* TextDocument::apply_deltas(doc, deltas)
RECURSIVE apply_deltas(_, _)
apply_deltas(text, deltas) ==
    IF deltas = <<>> THEN text
    ELSE apply_deltas(apply_operations(text, Head(deltas).operations), Tail(deltas))

\* TextDocument::from_deltas(deltas)
from_deltas(deltas) == [doc |-> apply_deltas(<<>>, deltas), deltas |-> deltas]

\* a constructor that keeps the delta of the seed with the deltas it was given
new_recording_seed(value, deltas) ==
    {[doc |-> apply_deltas(<<>>, <<Delta(operations, 0)>> \o deltas),
      deltas |-> <<Delta(operations, 0)>> \o deltas] :
        operations \in get_delta_operations(<<>>, value)}

\* TextDocument::new(value, deltas): the documents it can give
new(value, deltas) ==
    {[doc |-> apply_deltas(<<>>, <<Delta(operations, 0)>> \o deltas), deltas |-> deltas] :
        operations \in get_delta_operations(<<>>, value)}

\* TextDocument::to_string
to_string(text_document) == text_document.doc

\* the frame of a call on the TextDocument
Edited ==
    UNCHANGED <<refs, default_target, branches, before, after_ordering, got, callers, created>>

\* an update that records its event also when the event has no operations
update_always_recorded(value, now) ==
    /\ Len(document.deltas) < MaxDeltas
    /\ Edited
    /\ \E diffs \in get_delta_operations(to_string(document), value) :
          LET event == Delta(diffs, now)
          IN  /\ document' = [doc |-> apply_deltas(document.doc, <<event>>),
                              deltas |-> Append(document.deltas, event)]
              /\ last' = Ok("update", Some(value), Some(TRUE))

\* TextDocument::update(value), at the time `now` of the system clock
update(value, now) ==
    /\ Len(document.deltas) < MaxDeltas
    /\ Edited
    /\ \E diffs \in get_delta_operations(to_string(document), value) :
          LET event == Delta(diffs, now)
          IN  IF Len(event.operations) = 0
              THEN /\ UNCHANGED document
                   /\ last' = Ok("update", Some(value), Some(FALSE))
              ELSE /\ document' = [doc |-> apply_deltas(document.doc, <<event>>),
                                   deltas |-> Append(document.deltas, event)]
                   /\ last' = Ok("update", Some(value), Some(TRUE))

\* the values a caller passes to new and to update, and the times of the clock
TextInputs == {<<>>, <<"b">>, <<"a", "b">>, <<"a", "b", "a">>}

Times == {1, 2}

\* the deltas a caller passes to new
DeltaInputs == {<<>>, <<Delta(<<OpInsert(0, <<"a">>)>>, 1)>>}

InitText ==
    /\ refs = <<>>
    /\ default_target = None
    /\ branches = EmptyMap
    /\ last = Ok("new", None, None)
    /\ before = EmptyMap
    /\ after_ordering = "no"
    /\ got = None
    /\ callers = NoCallers
    /\ created \in {Created("from_deltas", <<>>, <<>>)}
                    \cup {Created("new", value, deltas) :
                            value \in TextInputs, deltas \in DeltaInputs}
    /\ document \in IF created.op = "from_deltas" THEN {from_deltas(created.deltas)}
                     ELSE new(created.value, created.deltas)

NextText == \E value \in TextInputs, now \in Times : update(value, now)

SpecText == InitText /\ [][NextText]_vars

(***************************************************************************)
(* Properties of the ordering.                                             *)
(***************************************************************************)
\* the ids of the stacks of `doc` that are in the workspace
WorkspaceIds(doc) == {id \in DOMAIN doc : doc[id].in_workspace}

OrdersOf(doc) == {doc[id].order : id \in WorkspaceIds(doc)}

\* the in-workspace orders of `doc` have a duplicate or a gap
Denormal(doc) == OrdersOf(doc) # 0..(Cardinality(WorkspaceIds(doc)) - 1)

\* C6: update_ordering is idempotent: a call of update_ordering that directly
\* follows one that returned Ok leaves every stack, and so every order, as the
\* first call left it.
C6_UpdateOrderingIdempotent ==
    (last.op = "update_ordering" /\ after_ordering # "no") => branches = before

\* a second update_ordering returned Ok right after a first one that had
\* renumbered three stacks in the workspace
C6_Witness ==
    /\ last.op = "update_ordering" /\ last.ok
    /\ after_ordering = "renumbered"
    /\ Cardinality(WorkspaceIds(branches)) = 3

\* C7: after update_ordering returns Ok, the n stacks in the workspace hold the
\* orders 0..n-1, each once, and two of them that were strictly ordered before
\* the call are ordered the same way after it.
C7_OrderingDenseAndMonotone ==
    (last.op = "update_ordering" /\ last.ok) =>
        LET ws == WorkspaceIds(branches)
        IN  /\ ws = WorkspaceIds(before)
            /\ \A id \in ws : branches[id].order \in 0..(Cardinality(ws) - 1)
            /\ \A a, b \in ws : a # b => branches[a].order # branches[b].order
            /\ \A a, b \in ws :
                  before[a].order < before[b].order => branches[a].order < branches[b].order

\* update_ordering returned Ok on three in-workspace stacks of which two shared
\* an order and whose orders had a gap
C7_Witness ==
    /\ last.op = "update_ordering" /\ last.ok
    /\ Cardinality(WorkspaceIds(before)) = 3
    /\ Cardinality(OrdersOf(before)) = 2
    /\ 0 \notin OrdersOf(before)

\* C8: next_order_index returns the number n of stacks in the workspace: 0 when
\* there is none, else one more than the greatest order after normalization; with
\* the returned order added the orders are 0..n, each once.
C8_NextOrderIndexIsCount ==
    (last.op = "next_order_index" /\ last.ok) =>
        LET ws == WorkspaceIds(branches)
            n == Cardinality(ws)
        IN  /\ last.ret = Some(n)
            /\ ws = {} => last.ret = Some(0)
            /\ \A id \in ws : branches[id].order < n
            /\ ws # {} => \E id \in ws : branches[id].order + 1 = n
            /\ \A a, b \in ws : a # b => branches[a].order # branches[b].order
            /\ OrdersOf(branches) \cup last.ret = 0..n

\* next_order_index returned 3 for three in-workspace stacks whose orders had a
\* duplicate or a gap before the call
C8_Witness ==
    /\ last.op = "next_order_index" /\ last.ok
    /\ last.ret = Some(3)
    /\ Denormal(before)

\* next_order_index returned 0 for a document with no stack in the workspace
C8_WitnessEmpty ==
    /\ last.op = "next_order_index" /\ last.ok
    /\ last.ret = Some(0)
    /\ DOMAIN branches # {}

(***************************************************************************)
(* Properties of garbage collection.                                       *)
(***************************************************************************)
\* `branch` is out of the workspace, has no marker, and its head is the merge
\* base of its head and the target's sha
HeadIsMergeBase(branch, target) ==
    /\ ~branch.in_workspace
    /\ branch.not_in_workspace_wip_change_id = None
    /\ merge_base(branch.head, target.sha) = Some(branch.head)

\* C9: garbage_collect never removes a stack that carries a pending-work
\* marker, whatever its head is: after the call the stack is stored as before.
C9_GcKeepsWip ==
    last.op = "garbage_collect" =>
        \A id \in DOMAIN before :
            before[id].not_in_workspace_wip_change_id # None =>
                id \in DOMAIN branches /\ branches[id] = before[id]

\* garbage_collect removed a stack and kept a stack out of the workspace that
\* has a marker and a head the repository does not hold
C9_Witness ==
    /\ last.op = "garbage_collect" /\ last.ok
    /\ DOMAIN branches # DOMAIN before
    /\ \E id \in DOMAIN branches :
          /\ ~branches[id].in_workspace
          /\ branches[id].not_in_workspace_wip_change_id # None
          /\ ~find_commit_ok(branches[id].head)

\* C10 as claimed: after garbage_collect ran on a document with a default target
\* (and the file could be read and written), every stack out of the workspace
\* without marker whose head is the merge base is gone.
C10_Original ==
    (last.op = "garbage_collect" /\ last.err # "io" /\ default_target # None) =>
        \A id \in DOMAIN before :
            HeadIsMergeBase(before[id], Unwrap(default_target)) => id \notin DOMAIN branches

\* C10 amended: after garbage_collect returned Ok, every such stack is gone.
C10_GcRemovesMerged ==
    (last.op = "garbage_collect" /\ last.ok) =>
        \A id \in DOMAIN before :
            HeadIsMergeBase(before[id], Unwrap(default_target)) => id \notin DOMAIN branches

\* garbage_collect returned Ok and removed a stack whose head is the merge base
\* and lies behind the target, next to a stack of an unrelated history that its
\* marker protects
C10_Witness ==
    /\ last.op = "garbage_collect" /\ last.ok
    /\ \E id \in DOMAIN before \ DOMAIN branches :
          /\ HeadIsMergeBase(before[id], Unwrap(default_target))
          /\ before[id].head # Unwrap(default_target).sha
    /\ \E id \in DOMAIN branches :
          /\ ~branches[id].in_workspace
          /\ merge_base(branches[id].head, Unwrap(default_target).sha) = None
          /\ find_commit_ok(branches[id].head)

(***************************************************************************)
(* Properties of the listing.                                              *)
(***************************************************************************)
\* the last call was a list_branches that returned Ok
Listed == last.op = "list_branches" /\ last.ok

\* the entries list_branches returned, and those combine_branches had returned
Listing == DOMAIN Unwrap(last.ret).listing

Combined == DOMAIN Unwrap(last.ret).all

\* the filter (an Option) the call was given
FilterGiven == Unwrap(last.arg).filter

\* the group branches with the identity `name` that went into the call
Grouped(name, kind) ==
    IF kind = "Virtual"
    THEN {id \in DOMAIN branches : identity(GroupBranch("Virtual", branches[id])) = Some(name)}
    ELSE {i \in DOMAIN refs : refs[i].kind = kind /\ given_name(refs[i]) = Some(name)}

\* C1: the listing holds no two entries with the same name, whatever local,
\* remote and virtual branches went in.
C1_UniqueNames ==
    Listed =>
        /\ \A e \in Listing : Unwrap(last.ret).listing[e] = 1
        /\ \A e1, e2 \in Listing : e1.name = e2.name => e1 = e2

\* the listing has two entries, and one of them stands for a local branch, two
\* remote branches and two virtual branches of the same identity
C1_Witness ==
    /\ Listed
    /\ Cardinality(Listing) = 2
    /\ \E e \in Listing :
          /\ Grouped(e.name, "Local") # {}
          /\ Cardinality(Grouped(e.name, "Remote")) = 2
          /\ Cardinality(Grouped(e.name, "Virtual")) = 2

\* C2 as claimed: no entry without virtual branch carries the name of the
\* default target's branch, whatever references make up its group.
C2_TargetBranchNeverListed ==
    Listed =>
        \A e \in Listing :
            ~(e.name = Unwrap(default_target).branch.branch /\ e.virtual_branch = None)

\* what the code does keep: such an entry is never listed when its group holds
\* a local branch
C2_LocalTargetBranchNotListed ==
    Listed =>
        \A e \in Listing :
            ~(/\ e.name = Unwrap(default_target).branch.branch
              /\ e.virtual_branch = None
              /\ e.has_local)

\* C3: an entry that has a virtual branch has the head of that virtual branch,
\* also when local and remote branches share its identity.
C3_HeadIsVirtualBranchHead ==
    Listed =>
        \A e \in Listing :
            e.virtual_branch # None =>
                /\ Unwrap(e.virtual_branch).id \in DOMAIN branches
                /\ e.head = branches[Unwrap(e.virtual_branch).id].head

\* an entry with a virtual branch, a local branch and a remote branch whose
\* heads all differ from the virtual branch's
C3_Witness ==
    /\ Listed
    /\ \E e \in Listing :
          /\ e.virtual_branch # None
          /\ e.has_local
          /\ Grouped(e.name, "Remote") # {}
          /\ \A i \in Grouped(e.name, "Local") \cup Grouped(e.name, "Remote") :
                refs[i].target # Some(e.head)

\* what the applied filter is to let through, in the words of the claim
AppliedAsClaimed(e, applied) ==
    IF applied
    THEN e.virtual_branch # None /\ Unwrap(e.virtual_branch).in_workspace
    ELSE e.virtual_branch = None \/ ~Unwrap(e.virtual_branch).in_workspace

\* C4: with a filter that sets only `applied`, the listing is exactly the
\* entries of the combined listing that the requested value asks for: with
\* true those whose virtual branch is in the workspace, with false those
\* without virtual branch or with one out of the workspace.
C4_AppliedFilter ==
    (Listed /\ FilterGiven # None) =>
        LET filter == Unwrap(FilterGiven)
        IN  (filter.applied # None /\ filter.local = None) =>
                Listing = {e \in Combined : AppliedAsClaimed(e, Unwrap(filter.applied))}

\* {applied: true} let the entry of a virtual branch in the workspace through
\* and held back an entry without virtual branch
C4_Witness ==
    /\ Listed
    /\ FilterGiven = Some(BranchListingFilter(None, Some(TRUE)))
    /\ Listing # {}
    /\ \E e \in Combined \ Listing : e.virtual_branch = None

\* {applied: false} let an entry without virtual branch through and held back
\* the entry of a virtual branch in the workspace
C4_WitnessNotApplied ==
    /\ Listed
    /\ FilterGiven = Some(BranchListingFilter(None, Some(FALSE)))
    /\ \E e \in Listing : e.virtual_branch = None
    /\ \E e \in Combined \ Listing : e.virtual_branch # None

\* {applied: false} let the entry of a virtual branch out of the workspace through
C4_WitnessOutOfWorkspace ==
    /\ Listed
    /\ FilterGiven = Some(BranchListingFilter(None, Some(FALSE)))
    /\ \E e \in Listing : e.virtual_branch # None

\* C5 as claimed: with a filter that sets only `local`, an entry passes exactly
\* when (it has a local branch or a virtual branch) equals the requested value.
C5_LocalFilterMatchesValue ==
    (Listed /\ FilterGiven # None) =>
        LET filter == Unwrap(FilterGiven)
        IN  (filter.local # None /\ filter.applied = None) =>
                Listing = {e \in Combined :
                             (e.has_local \/ e.virtual_branch # None) = Unwrap(filter.local)}

(***************************************************************************)
(* Properties of set and get.                                              *)
(***************************************************************************)
\* the last call but the gets was a set_branch that returned Ok, and a get_branch
\* of the id it stored has read the file since
GotAfterSet ==
    /\ last.op = "set_branch" /\ last.ok
    /\ got # None
    /\ Unwrap(got).op = "get_branch"
    /\ Unwrap(got).arg = Some(Unwrap(last.arg).id)
    /\ Unwrap(got).err # "io"

\* C11: round trip: get_branch(b.id) that follows a set_branch(b) that returned
\* Ok, with no other call than gets in between, returns Ok with a stack equal
\* to b in every field, whether or not the id was stored before.
C11_SetThenGetRoundTrip ==
    GotAfterSet => Unwrap(got).ok /\ Unwrap(got).ret = last.arg

\* the stack read back replaced one stored under the same id that differed from
\* it in every other field
C11_Witness ==
    /\ GotAfterSet
    /\ Unwrap(got).ok
    /\ LET b == Unwrap(last.arg)
       IN  /\ b.id \in DOMAIN before
           /\ \A field \in DOMAIN b \ {"id"} : before[b.id][field] # b[field]

\* the stack read back was stored under an id that was not stored before
C11_WitnessNew ==
    /\ GotAfterSet
    /\ Unwrap(got).ok
    /\ Unwrap(last.arg).id \notin DOMAIN before
    /\ DOMAIN before # {}

\* a get of what is not stored, the file being readable
GetOfAbsent(g) ==
    /\ g.err # "io"
    /\ \/ g.op = "get_default_target" /\ default_target = None
       \/ g.op = "get_branch" /\ Unwrap(g.arg) \notin DOMAIN branches

\* C12: get_default_target fails with NotFound when no default target is set, and
\* get_branch(id) fails with NotFound when no stack is stored under id; a get
\* that fails changes neither the stored stacks nor the default target.
C12_GetOfAbsentIsNotFound ==
    /\ [](got # None /\ GetOfAbsent(Unwrap(got)) =>
              ~Unwrap(got).ok /\ Unwrap(got).err = "NotFound")
    /\ [][(got' # None /\ got' # got /\ ~Unwrap(got').ok) =>
              UNCHANGED <<branches, default_target>>]_vars

\* get_branch failed with NotFound for a stack that garbage_collect had just removed
C12_Witness ==
    /\ last.op = "garbage_collect" /\ last.ok
    /\ got # None
    /\ Unwrap(got).op = "get_branch" /\ Unwrap(got).err = "NotFound"
    /\ Unwrap(Unwrap(got).arg) \in DOMAIN before \ DOMAIN branches

\* get_branch failed with NotFound for a stack that delete_branch_entry had just removed
C12_WitnessDeleted ==
    /\ last.op = "delete_branch_entry" /\ last.ok
    /\ got # None
    /\ Unwrap(got).op = "get_branch" /\ Unwrap(got).err = "NotFound"
    /\ Unwrap(got).arg = last.arg
    /\ Unwrap(last.arg) \in DOMAIN before

\* get_default_target failed with NotFound while stacks were stored
C12_WitnessNoTarget ==
    /\ got # None
    /\ Unwrap(got).op = "get_default_target" /\ Unwrap(got).err = "NotFound"
    /\ DOMAIN branches # {}

(***************************************************************************)
(* Properties of unsynchronized callers.                                   *)
(***************************************************************************)
\* both callers' set_branch returned Ok, and they stored stacks of different ids
BothStored ==
    /\ DOMAIN callers = CallerIds
    /\ \A c \in CallerIds : callers[c].pc = "ok"
    /\ \A c, d \in CallerIds : c # d => Unwrap(callers[c].branch).id # Unwrap(callers[d].branch).id

\* the file does not hold the stack that caller c stored
Lost(c) == try_branch(branches, Unwrap(callers[c].branch).id) # callers[c].branch

\* caller d read the file before c wrote it, and wrote it after c did
Overwrote(d, c) == c \in callers[d].at_write /\ c \notin callers[d].at_read

NamesGiven == Unwrap(last.arg).filter_branch_names

NamesAllowed == {Unwrap(NamesGiven)[i] : i \in DOMAIN Unwrap(NamesGiven)}

\* the listings the same call can return without allow-list
Unrestricted ==
    {list_branches_result(FilterGiven, None, iter).listing :
        iter \in IterationOrders(DOMAIN branches)}

\* C14: with an allow-list L, list_branches returns what the same call returns
\* without allow-list, restricted to the entries whose name is a member of L: no
\* entry of another name (one that only ends with a listed name included), and
\* every entry with the head, remotes, has_local and virtual branch it has in
\* the unrestricted listing.
C14_AllowListRestricts ==
    (Listed /\ NamesGiven # None) =>
        /\ \A e \in Listing : e.name \in NamesAllowed
        /\ \E unrestricted \in Unrestricted :
              Unwrap(last.ret).listing =
                  Retain(unrestricted, {e \in DOMAIN unrestricted : e.name \in NamesAllowed})

\* the allow-list <<"feature">> returned the entry feature, made of a local, a
\* remote and a virtual branch, and not the entry my-feature that the call
\* without allow-list returns
C14_Witness ==
    /\ Listed
    /\ NamesGiven = Some(<<"feature">>)
    /\ \E e \in Listing :
          e.name = "feature" /\ e.has_local /\ e.remotes # <<>> /\ e.virtual_branch # None
    /\ \A unrestricted \in Unrestricted :
          \E e \in DOMAIN unrestricted : e.name = "my-feature" /\ e.has_local

(***************************************************************************)
(* Properties of the groups of the listing.                                *)
(***************************************************************************)
\* the identities of the branches that went into the call
Identities ==
    {Unwrap(given_name(refs[i])) : i \in {j \in DOMAIN refs : given_name(refs[j]) # None}}
    \cup {Unwrap(identity(GroupBranch("Virtual", branches[id]))) :
            id \in {k \in DOMAIN branches :
                      identity(GroupBranch("Virtual", branches[k])) # None}}

\* the first branch of the repository of the given kind in the group `name`
FirstOf(name, kind) ==
    refs[CHOOSE i \in Grouped(name, kind) : \A j \in Grouped(name, kind) : i <= j]

\* the identity of a virtual branch in the words of the claim
ClaimedIdentity(stack) ==
    IF stack.source_refname # None /\ refname_branch(Unwrap(stack.source_refname)) # None
    THEN refname_branch(Unwrap(stack.source_refname))
    ELSE IF stack.upstream # None THEN Some(Unwrap(stack.upstream).branch)
    ELSE normalize_branch_name(stack.name)

\* C15 as claimed: a virtual branch is grouped under the branch name of its
\* source reference if it has one, else of its upstream reference if it has
\* one, else under its normalized name, and is left out only when this last
\* normalization fails: with every head readable, the listing has an entry of
\* that identity with a virtual branch.
C15_VirtualBranchIdentity ==
    (Listed /\ \A id \in DOMAIN branches : find_commit_ok(branches[id].head)) =>
        \A id \in DOMAIN branches :
            ClaimedIdentity(branches[id]) # None =>
                \E e \in Listing :
                    /\ e.name = Unwrap(ClaimedIdentity(branches[id]))
                    /\ e.virtual_branch # None

\* C16 as claimed: the remotes of an entry are collected from the local
\* branches of its group, each name once: an entry without local branch has no
\* remotes, and the entry of origin/feature, upstream/feature and a virtual
\* branch named feature has the remotes origin and upstream and has_local.
C16_RemotesFromLocalBranches ==
    Listed =>
        \A e \in Listing :
            /\ \A i, j \in DOMAIN e.remotes : i # j => e.remotes[i] # e.remotes[j]
            /\ e.remotes # <<>> => e.has_local
            /\ (e.remotes = <<"origin", "upstream">> /\ e.virtual_branch # None) => e.has_local

\* the group `name` is left out as the target's own branch
TargetGroup(name) ==
    /\ Grouped(name, "Virtual") = {}
    /\ \E i \in Grouped(name, "Local") : name = Unwrap(default_target).branch.branch

\* the head of a group without virtual branch, chosen by the kinds of branch the
\* group has: the first local branch's if it has a local branch, else the first
\* remote branch's
HeadByPresence(name) ==
    IF Grouped(name, "Local") # {} THEN FirstOf(name, "Local").target
    ELSE IF Grouped(name, "Remote") # {} THEN FirstOf(name, "Remote").target
    ELSE None

\* the head of a group without virtual branch, chosen among the heads that
\* resolve: the first local branch's if that peels, else the first remote branch's
HeadByResolution(name) ==
    IF Grouped(name, "Local") # {} /\ FirstOf(name, "Local").target # None
    THEN FirstOf(name, "Local").target
    ELSE IF Grouped(name, "Remote") # {} THEN FirstOf(name, "Remote").target
    ELSE None

\* C18 as claimed: a group without virtual branch is listed with the first of
\* its first local branch's head and its first remote branch's head that
\* resolves, and is dropped for lack of a head only if neither resolves.
C18_Original ==
    Listed =>
        \A name \in Identities :
            (/\ Grouped(name, "Virtual") = {}
             /\ ~TargetGroup(name)
             /\ HeadByResolution(name) # None) =>
                \E e \in Combined :
                    e.name = name /\ Some(e.head) = HeadByResolution(name)

\* C18 amended: the head of an entry is its virtual branch's head if the group
\* has a virtual branch, else the first local branch's head if the group has a
\* local branch, else the first remote branch's head; a group without virtual
\* branch is listed exactly when the branch chosen this way peels to a commit
\* the repository holds, so a first local branch that does not peel drops the
\* group also when a remote branch of the group resolves.
C18_HeadByPresence ==
    Listed =>
        /\ \A e \in Combined :
              IF e.virtual_branch # None
              THEN e.head = branches[Unwrap(e.virtual_branch).id].head
              ELSE Some(e.head) = HeadByPresence(e.name)
        /\ \A name \in Identities :
              (Grouped(name, "Virtual") = {} /\ ~TargetGroup(name)) =>
                  ((\E e \in Combined : e.name = name)
                      <=> /\ HeadByPresence(name) # None
                          /\ find_commit_ok(Unwrap(HeadByPresence(name))))

\* a group whose first local branch does not peel and whose remote branch
\* resolves was dropped, while a group of a remote branch alone was listed
\* with that branch's head
C18_Witness ==
    /\ Listed
    /\ \E name \in Identities :
          /\ Grouped(name, "Virtual") = {}
          /\ HeadByPresence(name) = None
          /\ HeadByResolution(name) # None
          /\ \A e \in Combined : e.name # name
    /\ \E e \in Combined :
          /\ e.virtual_branch = None /\ ~e.has_local
          /\ Some(e.head) = FirstOf(e.name, "Remote").target

\* the group `name` went into the call and gave no entry, and not because it
\* is the target's own branch
Failing(name) ==
    /\ name \in Identities
    /\ ~TargetGroup(name)
    /\ \A e \in Combined : e.name # name

\* what list_branches hands to combine_branches, without the members of the group `name`
InputWithout(name, iter) ==
    LET NotMember(group_branch) == identity(group_branch) # Some(name)
    IN  SelectSeq(group_branches_of(refs, list_all_branches(branches, iter)), NotMember)

\* C19: a group that does not resolve (no head, or a head commit the repository
\* does not hold) drops only itself: the call returns Ok, and what
\* combine_branches returns is what it returns for the same input without the
\* members of that group.
C19_FailingGroupDropsOnlyItself ==
    (last.op = "list_branches" /\ last.err # "io" /\ default_target # None) =>
        /\ last.ok
        /\ \A name \in Identities :
              Failing(name) =>
                  \E iter \in IterationOrders(DOMAIN branches) :
                      Unwrap(last.ret).all =
                          combine_branches(InputWithout(name, iter), Unwrap(default_target))

\* a group without head was dropped and another group, of a local, a remote and
\* a virtual branch, was listed
C19_Witness ==
    /\ Listed
    /\ \E name \in Identities :
          Failing(name) /\ Grouped(name, "Virtual") = {} /\ HeadByPresence(name) = None
    /\ \E e \in Combined : e.has_local /\ e.remotes # <<>> /\ e.virtual_branch # None

\* a group whose virtual branch has a head the repository does not hold was
\* dropped and another group was listed
C19_WitnessUnreadable ==
    /\ Listed
    /\ \E name \in Identities :
          /\ Failing(name)
          /\ \E id \in Grouped(name, "Virtual") : ~find_commit_ok(branches[id].head)
    /\ Combined # {}

(***************************************************************************)
(* Properties of the TextDocument.                                         *)
(***************************************************************************)
\* C17 as claimed: after update(value) has returned, to_string() is value,
\* whatever the text was before and however many insertions and deletions lie
\* between the two.
C17_UpdateSetsText ==
    last.op = "update" => to_string(document) = Unwrap(last.arg)

(***************************************************************************)
(* Properties of the enrichment.                                           *)
(***************************************************************************)
\* the entries list_branches can return for the names the call was given
ListedFor(branch_names) ==
    {DOMAIN list_branches_result(None, Some(branch_names), iter).listing :
        iter \in IterationOrders(DOMAIN branches)}

\* C20 as claimed: get_branch_listing_details does not abort because of one
\* entry: with a default target and a readable file it returns Ok, with the
\* details of every entry whose merge base, trees, statistics and walk can be
\* computed.
C20_DetailsNeverAbort ==
    (last.op = "get_branch_listing_details" /\ last.err # "io" /\ default_target # None) =>
        /\ last.ok
        /\ \E listing \in ListedFor(Unwrap(last.arg)) :
              \A branch \in listing :
                  enrich(branch, Unwrap(default_target)).kind = "enriched" =>
                      enrich(branch, Unwrap(default_target)).data \subseteq Unwrap(last.ret)

(***************************************************************************)
(* Failures of garbage collection.                                         *)
(***************************************************************************)
\* garbage_collect would push the id of `branch` onto to_remove
Marked(branch, target) ==
    /\ ~branch.in_workspace
    /\ branch.not_in_workspace_wip_change_id = None
    /\ \/ ~find_commit_ok(branch.head)
       \/ merge_base(branch.head, target.sha) = Some(branch.head)

\* C21: a garbage_collect that returns an error (no default target, a merge
\* base that cannot be computed, or a file that cannot be read or written) has
\* removed no stack: the document is the one the call started from.
C21_GcFailsWithoutRemoving ==
    (last.op = "garbage_collect" /\ ~last.ok) => branches = before

\* garbage_collect failed on the merge base of one stack while the document
\* holds another stack that the loop marks for removal
C21_Witness ==
    /\ last.op = "garbage_collect" /\ last.err = "merge_base"
    /\ \E id \in DOMAIN before : Marked(before[id], Unwrap(default_target))

\* garbage_collect failed because there is no default target, on a document
\* that holds a stack with a head the repository does not hold
C21_WitnessNoTarget ==
    /\ last.op = "garbage_collect" /\ last.err = "NotFound"
    /\ \E id \in DOMAIN before :
          ~before[id].in_workspace /\ ~find_commit_ok(before[id].head)

\* garbage_collect failed on the file while a stack was to be removed
C21_WitnessIo ==
    /\ last.op = "garbage_collect" /\ last.err = "io"
    /\ default_target # None
    /\ \E id \in DOMAIN before : Marked(before[id], Unwrap(default_target))

(***************************************************************************)
(* The writes of one garbage collection.                                   *)
(***************************************************************************)
\* the ids the collector `c` marked for removal
MarkedBy(c) == {callers[c].to_remove[i] : i \in DOMAIN callers[c].to_remove}

\* the ids stored when the call of `c` started and not stored now
RemovedSince(c) == DOMAIN callers[c].started_from \ DOMAIN branches

\* C22: a call of garbage_collect writes the file at most once, and not at all
\* when it marked nothing; whenever the file is looked at during or after the
\* call, either none or all of the marked stacks are gone, and after the write
\* the file is the document the call started from without the marked stacks.
C22_GcWritesOnce ==
    \A c \in DOMAIN callers :
        callers[c].pc # "idle" =>
            /\ callers[c].written <= 1
            /\ (callers[c].to_remove = <<>> => callers[c].written = 0)
            /\ RemovedSince(c) \in {{}, MarkedBy(c)}
            /\ (callers[c].written = 0 => branches = callers[c].started_from)
            /\ (callers[c].written > 0 =>
                    branches = remove_all(callers[c].started_from, callers[c].to_remove))

\* a collection that marked two stacks has returned Ok after one write
C22_Witness ==
    \E c \in DOMAIN callers :
        /\ callers[c].pc = "ok" /\ callers[c].written = 1
        /\ Len(callers[c].to_remove) = 2
        /\ RemovedSince(c) = MarkedBy(c)

\* a collection returned Ok without a write: the only stack out of the
\* workspace carries a marker
C22_WitnessNoWrite ==
    \E c \in DOMAIN callers :
        /\ callers[c].pc = "ok" /\ callers[c].written = 0
        /\ \E id \in DOMAIN branches : ~branches[id].in_workspace

(***************************************************************************)
(* A failure in the middle of update_ordering.                             *)
(***************************************************************************)
\* the stacks of `written` hold the orders 0..n-1 in the order they had in `doc`
Renumbered(doc, written) ==
    /\ \A a \in written : branches[a] = [doc[a] EXCEPT !.order = branches[a].order]
    /\ \A a \in written : branches[a].order \in 0..(Cardinality(written) - 1)
    /\ \A a, b \in written : a # b => branches[a].order # branches[b].order
    /\ \A a, b \in written : doc[a].order < doc[b].order => branches[a].order < branches[b].order

\* C23: when update_ordering reports that it failed to update the ordering, the
\* stacks in the workspace split into those written before the failing persist,
\* which come first in the order of `order` and hold their new orders 0, 1, ..,
\* and the failing one and those behind it, which are stored as before the call;
\* nothing else in the document changed.
C23_OrderingFailsPartway ==
    (last.op = "update_ordering" /\ last.err = "ordering") =>
        /\ DOMAIN branches = DOMAIN before
        /\ \E written \in SUBSET WorkspaceIds(before) :
              /\ written # WorkspaceIds(before)
              /\ \A a \in written, b \in WorkspaceIds(before) \ written :
                    before[a].order <= before[b].order
              /\ Renumbered(before, written)
              /\ \A b \in DOMAIN before \ written : branches[b] = before[b]

\* update_ordering failed after it had given a stack a new order, and a stack
\* behind the failing one still holds an order that is not its place
C23_Witness ==
    /\ last.op = "update_ordering" /\ last.err = "ordering"
    /\ \E a \in DOMAIN before : branches[a].order # before[a].order
    /\ Denormal(branches)

(***************************************************************************)
(* Several virtual branches of one identity.                               *)
(***************************************************************************)
\* the entry `e` is made from the stored stack `id` and from no other stack
MadeFrom(e, id) ==
    /\ e.virtual_branch = Some([given_name |-> branches[id].name, id |-> id,
                                in_workspace |-> branches[id].in_workspace])
    /\ e.head = branches[id].head
    /\ e.last_commiter = CommitAuthor[branches[id].head]
    /\ e.updated_at = Max(CommitSeconds[branches[id].head] * 1000,
                          branches[id].updated_timestamp_ms)

\* C24: an entry whose identity several virtual branches share is made from
\* one of them, and none of the others was updated later than that one: its id,
\* given name, in_workspace flag and head are the entry's.
C24_LatestVirtualBranchWins ==
    Listed =>
        \A e \in Listing :
            Cardinality(Grouped(e.name, "Virtual")) > 1 =>
                \E id \in Grouped(e.name, "Virtual") :
                    /\ \A other \in Grouped(e.name, "Virtual") :
                          branches[other].updated_timestamp_ms
                              <= branches[id].updated_timestamp_ms
                    /\ MadeFrom(e, id)

\* an entry for two virtual branches of one identity, made from the one that
\* was updated later, which is out of the workspace while the other is in it
C24_Witness ==
    /\ Listed
    /\ \E e \in Listing : \E id, other \in Grouped(e.name, "Virtual") :
          /\ branches[other].updated_timestamp_ms < branches[id].updated_timestamp_ms
          /\ branches[other].in_workspace /\ ~branches[id].in_workspace
          /\ MadeFrom(e, id)
          /\ Grouped(e.name, "Local") # {}

\* an entry for two virtual branches of one identity that were updated at the
\* same time
C24_WitnessTie ==
    /\ Listed
    /\ \E e \in Listing : \E id, other \in Grouped(e.name, "Virtual") :
          /\ id # other
          /\ branches[other].updated_timestamp_ms = branches[id].updated_timestamp_ms
          /\ MadeFrom(e, id)

(***************************************************************************)
(* What mark_as_not_in_workspace changes.                                  *)
(***************************************************************************)
\* the step is a call of mark_as_not_in_workspace(id) that got to read the file
Marks(id) ==
    /\ last'.op = "mark_as_not_in_workspace" /\ last'.arg = Some(id)
    /\ got' = None

\* C25: mark_as_not_in_workspace(id) on a stored stack returns Ok and changes
\* nothing but that stack's in_workspace, which is false afterwards; on an id
\* that is not stored it fails with NotFound and leaves the document as it
\* was; either way the default target is the one from before the call.
C25_MarkChangesOneFlag ==
    [][\A id \in StackIds :
          Marks(id) =>
              /\ default_target' = default_target
              /\ id \in DOMAIN branches =>
                    /\ last'.ok
                    /\ branches' = [branches EXCEPT ![id].in_workspace = FALSE]
              /\ id \notin DOMAIN branches =>
                    /\ ~last'.ok /\ last'.err = "NotFound"
                    /\ branches' = branches]_vars

\* mark_as_not_in_workspace took a stack out of the workspace while another
\* stack and a default target were stored
C25_Witness ==
    /\ last.op = "mark_as_not_in_workspace" /\ last.ok
    /\ before[Unwrap(last.arg)].in_workspace
    /\ ~branches[Unwrap(last.arg)].in_workspace
    /\ \E other \in DOMAIN branches : other # Unwrap(last.arg) /\ branches[other].in_workspace
    /\ default_target # None

\* mark_as_not_in_workspace failed with NotFound on a document that holds
\* another stack
C25_WitnessNotStored ==
    /\ last.op = "mark_as_not_in_workspace" /\ last.err = "NotFound"
    /\ Unwrap(last.arg) \notin DOMAIN branches
    /\ branches # EmptyMap

\* mark_as_not_in_workspace returned Ok on a stack that was already out of the
\* workspace and has an upstream, a source reference and a marker
C25_WitnessAlreadyOut ==
    /\ last.op = "mark_as_not_in_workspace" /\ last.ok
    /\ ~before[Unwrap(last.arg)].in_workspace
    /\ before[Unwrap(last.arg)].upstream # None
    /\ before[Unwrap(last.arg)].not_in_workspace_wip_change_id # None

(***************************************************************************)
(* The technical branches.                                                 *)
(***************************************************************************)
TechnicalNames == {"gitbutler/integration", "gitbutler/target", "gitbutler/oplog", "HEAD"}

\* the refs of the given kind whose name without the remote is a technical one
TechnicalRefs(kind) ==
    {i \in DOMAIN refs : refs[i].kind = kind /\ refs[i].short \in TechnicalNames}

\* C26: no entry of a listing is named gitbutler/integration, gitbutler/target,
\* gitbutler/oplog or HEAD, whatever references and virtual branches went in.
C26_NoTechnicalEntry ==
    Listed => \A e \in Listing : e.name \notin TechnicalNames

\* a listing with an entry, of a repository with a technical local branch and
\* a technical remote branch, and of a virtual branch whose source reference is
\* a technical branch while its name is not
C26_Witness ==
    /\ Listed /\ Listing # {}
    /\ TechnicalRefs("Local") # {} /\ TechnicalRefs("Remote") # {}
    /\ \E id \in DOMAIN branches :
          /\ branches[id].source_refname # None
          /\ Unwrap(branches[id].source_refname).branch \in TechnicalNames
          /\ branches[id].name \notin TechnicalNames

\* a listing with an entry, of a virtual branch whose upstream is a technical
\* branch while it has no source reference and its name is not technical
C26_WitnessUpstream ==
    /\ Listed /\ Listing # {}
    /\ \E id \in DOMAIN branches :
          /\ branches[id].source_refname = None
          /\ branches[id].upstream # None
          /\ Unwrap(branches[id].upstream).branch \in TechnicalNames
          /\ branches[id].name \notin TechnicalNames

\* a listing with an entry, of a virtual branch that has only its name, which
\* is HEAD
C26_WitnessName ==
    /\ Listed /\ Listing # {}
    /\ \E id \in DOMAIN branches :
          /\ branches[id].source_refname = None /\ branches[id].upstream = None
          /\ branches[id].name = "HEAD"

(***************************************************************************)
(* updated_at.                                                             *)
(***************************************************************************)
\* the updated_timestamp_ms of the virtual branch of the entry `e`, if it has one
TimestampOf(e) ==
    IF e.virtual_branch = None THEN None
    ELSE Some(branches[Unwrap(e.virtual_branch).id].updated_timestamp_ms)

\* C27: the updated_at of every entry is the greater of the time of its head
\* commit in milliseconds (seconds * 1000) and the updated_timestamp_ms of its
\* virtual branch if it has one, also for a head committed before the epoch;
\* it is never less than the updated_timestamp_ms.
C27_UpdatedAtIsMax ==
    Listed =>
        \A e \in Listing :
            /\ e.updated_at =
                  IF TimestampOf(e) = None THEN CommitSeconds[e.head] * 1000
                  ELSE Max(CommitSeconds[e.head] * 1000, Unwrap(TimestampOf(e)))
            /\ TimestampOf(e) # None => e.updated_at >= Unwrap(TimestampOf(e))

\* the same for the entries whose head was committed at or after the epoch
C27_UpdatedAtIsMaxSinceEpoch ==
    Listed =>
        \A e \in Listing :
            CommitSeconds[e.head] >= 0 =>
                /\ e.updated_at =
                      IF TimestampOf(e) = None THEN CommitSeconds[e.head] * 1000
                      ELSE Max(CommitSeconds[e.head] * 1000, Unwrap(TimestampOf(e)))
                /\ TimestampOf(e) # None => e.updated_at >= Unwrap(TimestampOf(e))

\* an entry with a virtual branch whose head was committed before the epoch
C27_WitnessBeforeEpoch ==
    /\ Listed
    /\ \E e \in Listing : e.virtual_branch # None /\ CommitSeconds[e.head] < 0

(***************************************************************************)
(* What update does to the deltas.                                         *)
(***************************************************************************)
\* the step is a call of update(value)
Updates(value) == last'.op = "update" /\ last'.arg = Some(value)

\* C28: update(value) with the text the document already has returns false
\* and leaves the text and the deltas as they are; with another value it
\* returns true and get_deltas() is what it was with one delta appended.
C28_UpdateAppendsOneDelta ==
    [][\A value \in TextInputs :
          Updates(value) =>
              IF value = to_string(document)
              THEN /\ last'.ret = Some(FALSE)
                   /\ document' = document
              ELSE /\ last'.ret = Some(TRUE)
                   /\ Len(document'.deltas) = Len(document.deltas) + 1
                   /\ SubSeq(document'.deltas, 1, Len(document.deltas)) = document.deltas]_vars

\* update returned true on a document that had two deltas already
C28_Witness ==
    /\ last.op = "update" /\ last.ret = Some(TRUE)
    /\ Len(document.deltas) = 3

\* update returned false on a document with text and deltas
C28_WitnessSameText ==
    /\ last.op = "update" /\ last.ret = Some(FALSE)
    /\ to_string(document) = Unwrap(last.arg)
    /\ to_string(document) # <<>>
    /\ document.deltas # <<>>

(***************************************************************************)
(* The deltas of a document and its text.                                  *)
(***************************************************************************)
\* the deltas the constructor was given are the first deltas of the document
KeepsGivenDeltas ==
    /\ Len(document.deltas) >= Len(created.deltas)
    /\ SubSeq(document.deltas, 1, Len(created.deltas)) = created.deltas

\* C29: a document made by from_deltas([]) and changed by updates has the text
\* that from_deltas(get_deltas()) has; a document made by new(value, deltas)
\* with a value that is not empty has, before any update, exactly the deltas it
\* was given, the seed not among them, and later those followed by one delta
\* for each update that returned true.
C29_ReplayGivesText ==
    /\ []((created.op = "from_deltas" /\ created.deltas = <<>>) =>
            to_string(from_deltas(document.deltas)) = to_string(document))
    /\ []((created.op = "new" /\ created.value # <<>>) =>
            /\ KeepsGivenDeltas
            /\ last.op # "update" => document.deltas = created.deltas)
    /\ [][document'.deltas # document.deltas =>
            /\ last'.op = "update" /\ last'.ret = Some(TRUE)
            /\ Len(document'.deltas) = Len(document.deltas) + 1
            /\ SubSeq(document'.deltas, 1, Len(document.deltas)) = document.deltas]_vars

\* a document made by from_deltas([]) after three updates that changed it
C29_Witness ==
    /\ created.op = "from_deltas"
    /\ Len(document.deltas) = 3
    /\ to_string(document) # <<>>

\* a document made by new with a value and a delta, after an update: it has
\* two deltas, and their replay does not give its text
C29_WitnessSeeded ==
    /\ created.op = "new" /\ created.value # <<>> /\ created.deltas # <<>>
    /\ last.op = "update" /\ last.ret = Some(TRUE)
    /\ Len(document.deltas) = 2
    /\ to_string(from_deltas(document.deltas)) # to_string(document)

\* a document made by new with a value and no deltas, before any update
C29_WitnessNew ==
    /\ created.op = "new" /\ created.value # <<>>
    /\ last.op # "update"
    /\ document.deltas = <<>> /\ to_string(document) = created.value

(***************************************************************************)
(* The keys of the document.                                               *)
(***************************************************************************)
\* C30: whatever calls were made on the empty document, every stack is stored
\* under its own id, so no two stored stacks have the same id.
C30_StoredUnderOwnId ==
    /\ \A k \in DOMAIN branches : branches[k].id = k
    /\ \A k1, k2 \in DOMAIN branches : branches[k1].id = branches[k2].id => k1 = k2

\* three stacks are stored after an update_ordering that gave one of them a
\* new order and that followed a call that removed or replaced an entry
C30_Witness ==
    /\ last.op = "update_ordering" /\ last.ok
    /\ Cardinality(DOMAIN branches) = 3
    /\ branches # before
    /\ after_ordering = "no"

\* a stack is stored after mark_as_not_in_workspace took it out of the workspace
C30_WitnessMarked ==
    /\ last.op = "mark_as_not_in_workspace" /\ last.ok
    /\ branches # before

(***************************************************************************)
(* update_ordering next to another caller.                                 *)
(***************************************************************************)
\* the other caller's call on the stack `id` completed after update_ordering
\* had listed the stacks and before its write of the `k`-th of them
Interfered(op, id, k) ==
    /\ callers["other"].pc = "done"
    /\ callers["other"].op = op /\ callers["other"].id = id
    /\ callers["other"].during \in {"listed", "read"}
    /\ callers["other"].at < k

C31_WitnessOverwritten ==
    /\ callers["orderer"].pc = "ok"
    /\ \E k \in DOMAIN callers["orderer"].sorted :
          /\ Interfered("set_branch", callers["orderer"].sorted[k].id, k)
          /\ branches[callers["orderer"].sorted[k].id].name = "lane"
          /\ branches[callers["orderer"].sorted[k].id].in_workspace

(***************************************************************************)
(* What garbage_collect leaves alone.                                      *)
(***************************************************************************)
\* the step is a call of garbage_collect
Collects == last'.op = "garbage_collect" /\ got' = None

\* `branch` is out of the workspace and has commits of its own: its head
\* resolves and is not the merge base of the head and the target's sha
HasCommits(branch, target) ==
    /\ ~branch.in_workspace
    /\ find_commit_ok(branch.head)
    /\ merge_base(branch.head, target.sha) # Some(branch.head)

\* C32: garbage_collect removes no stack that is in the workspace and no stack
\* out of the workspace whose head resolves and is not the merge base of the
\* head and the target's sha; the default target and every stack that is still
\* stored are as they were before the call.
C32_GcRemovesNothingElse ==
    [][Collects =>
          /\ default_target' = default_target
          /\ \A id \in DOMAIN branches' : id \in DOMAIN branches /\ branches'[id] = branches[id]
          /\ \A id \in DOMAIN branches : branches[id].in_workspace => id \in DOMAIN branches'
          /\ default_target = None => branches' = branches
          /\ default_target # None =>
                \A id \in DOMAIN branches :
                    HasCommits(branches[id], Unwrap(default_target)) =>
                        id \in DOMAIN branches']_vars

\* garbage_collect removed a stack and kept a stack in the workspace whose head
\* is the merge base
C32_Witness ==
    /\ last.op = "garbage_collect" /\ last.ok
    /\ DOMAIN branches # DOMAIN before
    /\ \E id \in DOMAIN branches :
          /\ branches[id].in_workspace
          /\ merge_base(branches[id].head, Unwrap(default_target).sha) = Some(branches[id].head)

\* garbage_collect removed a stack and kept a stack out of the workspace,
\* without marker, that is one commit ahead of the target
C32_WitnessAhead ==
    /\ last.op = "garbage_collect" /\ last.ok
    /\ DOMAIN branches # DOMAIN before
    /\ \E id \in DOMAIN branches :
          /\ HasCommits(branches[id], Unwrap(default_target))
          /\ branches[id].not_in_workspace_wip_change_id = None

====
